---------------------------- MODULE Spec2Model ----------------------------
(***************************************************************************)
(* Conference directory of the conference bot: the catalog rebuild         *)
(* (Conference.construct), the third-party-invite redemption handler       *)
(* registered in the Conference constructor, and the membership            *)
(* reconciler InviteCommand.ensureInvited.                                  *)
(*                                                                         *)
(* The code is single-threaded and asynchronous.  Every action below is    *)
(* one run of the code from one suspension point (an await on the Matrix   *)
(* client or the backend) to the next.                                     *)
(***************************************************************************)
EXTENDS Integers, Sequences, FiniteSets, TLC

(***************************************************************************)
(* Bounds of the model.  batchSize is 20 in Conference.construct; the      *)
(* model scales it down so that a handful of rooms spans several batches.  *)
(***************************************************************************)
MaxRooms == 3
batchSize == 2
MaxRuns == 2
\* The ensureInvited calls of a behaviour.
MaxCalls == 2
\* The length of an auditorium or interest room ID.
MaxIdLen == 2
\* The room events delivered to the handler in a behaviour.
MaxEvents == 2

NoRoom == 0

Rooms == 1..MaxRooms

\* client.getJoinedRooms(): the rooms the agent has joined, in the order returned.
JoinedRooms == [n \in 1..MaxRooms |-> n]

\* this.id, the conference the catalog is built for; OtherConference is any other.
ConferenceId == "X"
OtherConference == "Y"

\* client.getUserId() and an identity that is not the agent.
Agent == "@bot"
Stranger == "@mallory"

NoId == "undefined"

\* RoomKind (models/room_kinds); "other" is any value the switch does not list.
KindConference == "conference"
KindAuditorium == "auditorium"
KindAuditoriumBackstage == "auditorium_backstage"
KindTalk == "talk"
KindSpecialInterest == "special_interest"
KindOther == "other"

\* The content of an m.room.create event with its sender: the conference ID,
\* the kind flag and the three per-kind logical IDs.
CreateEvent(conf, kind, aud, talk, interest, sender) ==
    [conf |-> conf, kind |-> kind, auditoriumId |-> aud, talkId |-> talk,
     interestId |-> interest, sender |-> sender]

\* The creation records a joined room may carry.
CreateRecords ==
    { CreateEvent(ConferenceId, KindConference, NoId, NoId, NoId, Agent),
      CreateEvent(ConferenceId, KindAuditorium, "A1", NoId, NoId, Agent),
      CreateEvent(ConferenceId, KindAuditoriumBackstage, "A1", NoId, NoId, Agent),
      CreateEvent(ConferenceId, KindTalk, "A1", "T1", NoId, Agent),
      CreateEvent(ConferenceId, KindSpecialInterest, NoId, NoId, "I1", Agent),
      CreateEvent(OtherConference, KindTalk, "A1", "T1", NoId, Agent) }

EmptyMap == [k \in {} |-> NoRoom]

\* Put that keeps the entry a key already has.
PutIfAbsent(map, key, value) == map @@ (key :> value)

\* obj[key] = value on a JavaScript object used as a map.
Put(map, key, value) == (key :> value) @@ map

Min(a, b) == IF a < b THEN a ELSE b

\* config.conference.existingInterestRooms, in property order: interest ID, alias.
ExistingInterestRooms == << <<"I1", "#i1">>, <<"I2", "#i2">> >>

Aliases == {"#i1", "#i2"}

\* The rest of the substrate the rebuild reads.  alias: what client.resolveRoom
\* answers for the configured aliases, a room ID, or NoRoom when the alias does
\* not resolve (the call throws).  people, subspaces: the RS_STORED_PERSON and
\* RS_STORED_SUBSPACE records a conference room's state holds.
SubstrateOptions ==
    { [alias |-> [a \in Aliases |-> IF a = "#i1" THEN NoRoom ELSE 2],
       people |-> EmptyMap, subspaces |-> EmptyMap],
      [alias |-> [a \in Aliases |-> IF a = "#i1" THEN 1 ELSE NoRoom],
       people |-> ("p1" :> "@u1"), subspaces |-> ("S1" :> "!space1")] }

VARIABLES
    \* fields of the Conference object
    dbRoom, subspaces, auditoriums, auditoriumBackstages, talks, interestRooms, people,
    \* the room substrate
    createEvent, storedPersonState, storedSubspaceState, aliasTarget,
    \* Conference.construct: position, the list getJoinedRooms returned, loop
    \* counters, reads in flight
    cpc, runs, roomIds, batchStart, interestIdx, rootRead, subspaceKeys, tasks, faulted,
    \* history: catalog at the call, catalog at the last normal return and at
    \* the one before it, why the last call threw and on which room's read; faulted: a substrate call has failed (the model
    \* injects at most one failure per behaviour)
    preCatalog, lastDone, prevDone, failCause, failedRoom,
    \* m.room.third_party_invite records per room, and the runs of the
    \* room.event handler
    thirdPartyInvites, handler,
    \* the person records of the backend database, and the number of room
    \* events delivered so far
    dbRecords, delivered,
    \* raw membership per room and user, the InviteCommand.ensureInvited call
    \* in flight, the number of calls made, and (history) the call that ended
    \* last
    membership, ensure, calls, lastCall,
    \* the users map of each room's m.room.power_levels record, the
    \* Conference.ensurePermissionsFor call in flight, the number of calls
    \* made, (history) the call that ended last, and a second
    \* ensurePermissionsFor call made on the same room while the first is in
    \* flight
    powerLevels, perm, permCalls, lastPerm, overlap,
    \* the Conference.getDesiredParentSpace call in flight
    desired,
    \* the createAuditorium / createAuditoriumBackstage calls in flight, and
    \* the rooms safeCreateRoom has created, in order
    creating, createdRooms,
    \* the getPeopleForAuditorium / getPeopleForTalk call that returned last
    resolveCall

catalogVars == <<dbRoom, subspaces, auditoriums, auditoriumBackstages, talks,
                 interestRooms, people>>
envVars == <<createEvent, storedPersonState, storedSubspaceState, aliasTarget>>
constructVars == <<cpc, runs, roomIds, batchStart, interestIdx, rootRead, subspaceKeys, tasks,
                   faulted, preCatalog, lastDone, prevDone, failCause, failedRoom>>
handlerVars == <<thirdPartyInvites, handler, dbRecords, delivered>>
inviteVars == <<membership, ensure, calls, lastCall>>
permVars == <<powerLevels, perm, permCalls, lastPerm, overlap>>
createVars == <<creating, createdRooms>>
vars == <<catalogVars, envVars, constructVars, handlerVars, inviteVars, permVars, desired, createVars, resolveCall>>

Catalog == catalogVars

NoCatalog == <<>>

\* Conference.isCreated
isCreated == dbRoom # NoRoom

\* Conference.reset()
reset ==
    /\ dbRoom' = NoRoom
    /\ subspaces' = EmptyMap
    /\ auditoriums' = EmptyMap
    /\ auditoriumBackstages' = EmptyMap
    /\ talks' = EmptyMap
    /\ interestRooms' = EmptyMap
    /\ people' = EmptyMap

\* ids.slice(start), as the tasks of run n
BatchToTheEnd(ids, n, start) ==
    { <<n, ids[j]>> : j \in (start + 1)..Len(ids) }

\* ids.slice(start, start + batchSize), as the tasks of run n
Batch(ids, n, start) ==
    { <<n, ids[j]>> : j \in (start + 1)..Min(start + batchSize, Len(ids)) }

\* Classify with talks filed under RSC_AUDITORIUM_ID instead of RSC_TALK_ID.
\* Classify with the other buckets emptied when the root room is found.
ClassifyRootFirst(roomId) ==
    LET ev == createEvent[roomId] IN
    IF ev.conf = ConferenceId
    THEN CASE ev.kind = KindConference ->
                /\ dbRoom' = roomId
                /\ auditoriums' = EmptyMap
                /\ auditoriumBackstages' = EmptyMap
                /\ talks' = EmptyMap
                /\ interestRooms' = EmptyMap
           [] ev.kind = KindAuditorium ->
                /\ auditoriums' = Put(auditoriums, ev.auditoriumId, roomId)
                /\ UNCHANGED <<dbRoom, auditoriumBackstages, talks, interestRooms>>
           [] ev.kind = KindAuditoriumBackstage ->
                /\ auditoriumBackstages' = Put(auditoriumBackstages, ev.auditoriumId, roomId)
                /\ UNCHANGED <<dbRoom, auditoriums, talks, interestRooms>>
           [] ev.kind = KindTalk ->
                /\ talks' = Put(talks, ev.talkId, roomId)
                /\ UNCHANGED <<dbRoom, auditoriums, auditoriumBackstages, interestRooms>>
           [] ev.kind = KindSpecialInterest ->
                /\ interestRooms' = Put(interestRooms, ev.interestId, roomId)
                /\ UNCHANGED <<dbRoom, auditoriums, auditoriumBackstages, talks>>
           [] OTHER ->
                UNCHANGED <<dbRoom, auditoriums, auditoriumBackstages, talks, interestRooms>>
    ELSE UNCHANGED <<dbRoom, auditoriums, auditoriumBackstages, talks, interestRooms>>

ClassifyTalkByAuditorium(roomId) ==
    LET ev == createEvent[roomId] IN
    IF ev.conf = ConferenceId
    THEN CASE ev.kind = KindConference ->
                /\ dbRoom' = roomId
                /\ UNCHANGED <<auditoriums, auditoriumBackstages, talks, interestRooms>>
           [] ev.kind = KindAuditorium ->
                /\ auditoriums' = Put(auditoriums, ev.auditoriumId, roomId)
                /\ UNCHANGED <<dbRoom, auditoriumBackstages, talks, interestRooms>>
           [] ev.kind = KindAuditoriumBackstage ->
                /\ auditoriumBackstages' = Put(auditoriumBackstages, ev.auditoriumId, roomId)
                /\ UNCHANGED <<dbRoom, auditoriums, talks, interestRooms>>
           [] ev.kind = KindTalk ->
                /\ talks' = Put(talks, ev.auditoriumId, roomId)
                /\ UNCHANGED <<dbRoom, auditoriums, auditoriumBackstages, interestRooms>>
           [] ev.kind = KindSpecialInterest ->
                /\ interestRooms' = Put(interestRooms, ev.interestId, roomId)
                /\ UNCHANGED <<dbRoom, auditoriums, auditoriumBackstages, talks>>
           [] OTHER ->
                UNCHANGED <<dbRoom, auditoriums, auditoriumBackstages, talks, interestRooms>>
    ELSE UNCHANGED <<dbRoom, auditoriums, auditoriumBackstages, talks, interestRooms>>

\* The body of one task after its read of the creation record returned
\* (construct, the callback passed to map).
Classify(roomId) ==
    LET ev == createEvent[roomId] IN
    IF ev.conf = ConferenceId
    THEN CASE ev.kind = KindConference ->
                /\ dbRoom' = roomId
                /\ UNCHANGED <<auditoriums, auditoriumBackstages, talks, interestRooms>>
           [] ev.kind = KindAuditorium ->
                /\ auditoriums' = Put(auditoriums, ev.auditoriumId, roomId)
                /\ UNCHANGED <<dbRoom, auditoriumBackstages, talks, interestRooms>>
           [] ev.kind = KindAuditoriumBackstage ->
                /\ auditoriumBackstages' = Put(auditoriumBackstages, ev.auditoriumId, roomId)
                /\ UNCHANGED <<dbRoom, auditoriums, talks, interestRooms>>
           [] ev.kind = KindTalk ->
                /\ talks' = Put(talks, ev.talkId, roomId)
                /\ UNCHANGED <<dbRoom, auditoriums, auditoriumBackstages, interestRooms>>
           [] ev.kind = KindSpecialInterest ->
                /\ interestRooms' = Put(interestRooms, ev.interestId, roomId)
                /\ UNCHANGED <<dbRoom, auditoriums, auditoriumBackstages, talks>>
           [] OTHER ->
                UNCHANGED <<dbRoom, auditoriums, auditoriumBackstages, talks, interestRooms>>
    ELSE UNCHANGED <<dbRoom, auditoriums, auditoriumBackstages, talks, interestRooms>>

\* NextUnresolved without the test for an ID the catalog already holds.
NextConfigured(ir, k) ==
    IF k <= Len(ExistingInterestRooms) THEN k ELSE 0

\* The first configured interest room at or after position k that is not in
\* the given interestRooms map (the loop's "continue"), or 0.
NextUnresolved(ir, k) ==
    LET todo == { j \in k..Len(ExistingInterestRooms) :
                    ExistingInterestRooms[j][1] \notin DOMAIN ir }
    IN IF todo = {} THEN 0 ELSE CHOOSE j \in todo : \A m \in todo : j <= m

\* LocateMetadata without the return for a missing root room: the state of
\* the first joined room is read instead.
LocateMetadataAlways(root) ==
    /\ cpc' = "getRoomState"
    /\ rootRead' = IF root = NoRoom THEN JoinedRooms[1] ELSE root

\* construct from "if (!this.dbRoom) return" to the read of the root room's state.
LocateMetadata(root) ==
    IF root = NoRoom
    THEN /\ cpc' = "done"
         /\ rootRead' = NoRoom
    ELSE /\ cpc' = "getRoomState"
         /\ rootRead' = root

\* construct from the loop over existingInterestRooms (at position k) to its
\* next await, given the catalog as it stands after this step.
ResolveExisting(k) ==
    LET j == NextUnresolved(interestRooms', k) IN
    IF j # 0
    THEN /\ cpc' = "resolveRoom"
         /\ interestIdx' = j
         /\ rootRead' = NoRoom
    ELSE /\ interestIdx' = 0
         /\ LocateMetadata(dbRoom')

\* History only: when this step makes construct return normally, the catalog
\* it returns with is recorded.
RecordReturn ==
    IF cpc' = "done" /\ cpc # "done"
    THEN lastDone' = Catalog' /\ prevDone' = lastDone
    ELSE UNCHANGED <<lastDone, prevDone>>

\* construct(): reset, then the call of getJoinedRooms.
Construct ==
    /\ cpc \in {"idle", "done", "failed"}
    /\ runs < MaxRuns
    /\ runs' = runs + 1
    /\ preCatalog' = Catalog
    /\ reset
    /\ cpc' = "getJoinedRooms"
    /\ failCause' = "none"
    /\ failedRoom' = NoRoom
    /\ roomIds' = << >>
    /\ UNCHANGED <<envVars, batchStart, interestIdx, rootRead, subspaceKeys, tasks,
                   faulted, lastDone, prevDone>>

\* JoinedRoomsReturned with the tasks of the batch started but never awaited
\* (no Promise.all): construct goes straight on past the loop.
JoinedRoomsReturnedNoAwait(list) ==
    /\ cpc = "getJoinedRooms"
    /\ roomIds' = list
    /\ tasks' = tasks \cup { <<runs, list[j]>> : j \in DOMAIN list }
    /\ batchStart' = 0
    /\ UNCHANGED catalogVars
    /\ ResolveExisting(1)
    /\ RecordReturn
    /\ UNCHANGED <<envVars, runs, subspaceKeys, faulted, preCatalog, failCause, failedRoom>>

\* getJoinedRooms returned the list: the first batch of reads is issued, or,
\* with no joined room, the loop is skipped.
JoinedRoomsReturned(list) ==
    /\ cpc = "getJoinedRooms"
    /\ roomIds' = list
    /\ batchStart' = 0
    /\ tasks' = tasks \cup Batch(list, runs, 0)
    /\ UNCHANGED catalogVars
    /\ IF list # << >>
       THEN /\ cpc' = "batches"
            /\ UNCHANGED <<interestIdx, rootRead>>
       ELSE ResolveExisting(1)
    /\ RecordReturn
    /\ UNCHANGED <<envVars, runs, subspaceKeys, faulted, preCatalog, failCause, failedRoom>>

\* getJoinedRooms threw: construct throws.
JoinedRoomsFailed ==
    /\ cpc = "getJoinedRooms"
    /\ ~faulted
    /\ faulted' = TRUE
    /\ cpc' = "failed"
    /\ failCause' = "getJoinedRooms"
    /\ UNCHANGED <<catalogVars, envVars, runs, roomIds, batchStart, interestIdx, rootRead,
                   subspaceKeys, tasks, preCatalog, lastDone, prevDone, failedRoom>>

Awaited == IF cpc = "batches" THEN Batch(roomIds, runs, batchStart) ELSE {}

\* One creation-record read returned: the task classifies its room.  When it
\* was the last task Promise.all waited for, construct goes on to the next
\* batch or past the loop.
TaskReturned(t) ==
    /\ t \in tasks
    /\ Classify(t[2])
    /\ UNCHANGED <<subspaces, people>>
    /\ IF t \in Awaited /\ (tasks \ {t}) \cap Awaited = {}
       THEN IF batchStart + batchSize < Len(roomIds)
            THEN /\ batchStart' = batchStart + batchSize
                 /\ tasks' = (tasks \ {t}) \cup Batch(roomIds, runs, batchStart + batchSize)
                 /\ UNCHANGED <<cpc, interestIdx, rootRead>>
            ELSE /\ batchStart' = 0
                 /\ tasks' = tasks \ {t}
                 /\ ResolveExisting(1)
       ELSE /\ tasks' = tasks \ {t}
            /\ UNCHANGED <<cpc, batchStart, interestIdx, rootRead>>
    /\ RecordReturn
    /\ UNCHANGED <<envVars, runs, roomIds, subspaceKeys, faulted, preCatalog, failCause, failedRoom>>

\* One creation-record read threw: its task rejects.  Promise.all rejects
\* with the first rejection, so construct throws; the batch's other reads
\* stay in flight.
TaskFailed(t) ==
    /\ t \in tasks
    /\ ~faulted
    /\ faulted' = TRUE
    /\ tasks' = tasks \ {t}
    /\ IF t \in Awaited
       THEN /\ cpc' = "failed"
            /\ failCause' = "createEvent"
            /\ failedRoom' = t[2]
       ELSE UNCHANGED <<cpc, failCause, failedRoom>>
    /\ UNCHANGED <<catalogVars, envVars, runs, roomIds, batchStart, interestIdx, rootRead,
                   subspaceKeys, preCatalog, lastDone, prevDone>>

\* resolveRoom returned or threw for the configured interest room at
\* interestIdx; a throw is swallowed and the loop goes on.
ResolveReturned ==
    /\ cpc = "resolveRoom"
    /\ LET interestId == ExistingInterestRooms[interestIdx][1]
           roomId == aliasTarget[ExistingInterestRooms[interestIdx][2]]
       IN /\ interestRooms' = IF roomId = NoRoom THEN interestRooms
                              ELSE Put(interestRooms, interestId, roomId)
          /\ UNCHANGED <<dbRoom, subspaces, auditoriums, auditoriumBackstages, talks, people>>
          /\ ResolveExisting(interestIdx + 1)
    /\ RecordReturn
    /\ UNCHANGED <<envVars, runs, roomIds, batchStart, subspaceKeys, tasks, faulted,
                   preCatalog, failCause, failedRoom>>

\* The keys of a map as the sequence a for..of over its records visits.
RECURSIVE KeySeq(_)
KeySeq(S) == IF S = {} THEN <<>>
             ELSE LET k == CHOOSE x \in S : TRUE IN <<k>> \o KeySeq(S \ {k})

\* getRoomState(dbRoom) returned: the people cache is filled, then the first
\* stored subspace is fetched.
RoomStateReturned ==
    /\ cpc = "getRoomState"
    /\ people' = storedPersonState[rootRead] @@ people
    /\ LET keys == KeySeq(DOMAIN storedSubspaceState[rootRead]) IN
         /\ subspaceKeys' = keys
         /\ cpc' = IF keys = <<>> THEN "done" ELSE "getSpace"
    /\ UNCHANGED <<dbRoom, subspaces, auditoriums, auditoriumBackstages, talks, interestRooms>>
    /\ RecordReturn
    /\ UNCHANGED <<envVars, runs, roomIds, batchStart, interestIdx, rootRead, tasks, faulted,
                   preCatalog, failCause, failedRoom>>

\* RoomStateFailed with the catalog cleared on the way out.
RoomStateFailedReset ==
    /\ cpc = "getRoomState"
    /\ ~faulted
    /\ faulted' = TRUE
    /\ cpc' = "failed"
    /\ failCause' = "getRoomState"
    /\ reset
    /\ UNCHANGED <<envVars, runs, roomIds, batchStart, interestIdx, rootRead,
                   subspaceKeys, tasks, preCatalog, lastDone, prevDone, failedRoom>>

\* getRoomState(dbRoom) threw: construct throws after discovery.
RoomStateFailed ==
    /\ cpc = "getRoomState"
    /\ ~faulted
    /\ faulted' = TRUE
    /\ cpc' = "failed"
    /\ failCause' = "getRoomState"
    /\ UNCHANGED <<catalogVars, envVars, runs, roomIds, batchStart, interestIdx, rootRead,
                   subspaceKeys, tasks, preCatalog, lastDone, prevDone, failedRoom>>

\* getSpace returned for the first pending stored subspace.
SpaceReturned ==
    /\ cpc = "getSpace"
    /\ LET key == Head(subspaceKeys) IN
         subspaces' = Put(subspaces, key, storedSubspaceState[rootRead][key])
    /\ subspaceKeys' = Tail(subspaceKeys)
    /\ cpc' = IF Tail(subspaceKeys) = <<>> THEN "done" ELSE "getSpace"
    /\ UNCHANGED <<dbRoom, auditoriums, auditoriumBackstages, talks, interestRooms, people>>
    /\ RecordReturn
    /\ UNCHANGED <<envVars, runs, roomIds, batchStart, interestIdx, rootRead, tasks, faulted,
                   preCatalog, failCause, failedRoom>>

(***************************************************************************)
(* The room.event handler registered by the Conference constructor: the    *)
(* redemption of a third-party invite.                                     *)
(***************************************************************************)

\* The handler runs that may be in flight at the same time.
Handlers == {"h1", "h2"}

\* An incoming room event: its type, whether content.third_party_invite is
\* present, content.third_party_invite.signed?.token, and its state_key.
Event(type, invite, token, stateKey) ==
    [type |-> type, third_party_invite |-> invite, token |-> token, state_key |-> stateKey]

UserIds == {"@u1", "@u2"}

Events ==
    { Event("m.room.message", FALSE, NoId, u) : u \in UserIds }
    \cup { Event("m.room.member", FALSE, NoId, u) : u \in UserIds }
    \cup { Event("m.room.member", TRUE, NoId, u) : u \in UserIds }
    \cup { Event("m.room.member", TRUE, "t1", u) : u \in UserIds }

\* An m.room.third_party_invite state event: its sender and content[RS_3PID_PERSON_ID].
ThirdPartyInvite(sender, personId) == [sender |-> sender, personId |-> personId]

\* db.findPeopleWithId: the backend's records of a person, one per role.
IDbPerson(personId, role) == [person_id |-> personId, event_role |-> role, matrix_id |-> NoId]

\* The backend's person table by person ID: p1 is a speaker and a
\* coordinator without a platform identity on record, p3 a host with one.
BackendRecords ==
    ("p1" :> << IDbPerson("p1", "speaker"), IDbPerson("p1", "coordinator") >>)
    @@ ("p3" :> << [IDbPerson("p3", "host") EXCEPT !.matrix_id = "@u3"] >>)

findPeopleWithId(personId) ==
    IF personId \in DOMAIN dbRecords THEN dbRecords[personId] ELSE << >>

\* makeStoredPerson(this.id, person): the stored-person state event, keyed by
\* the person ID and carrying the platform identity.
makeStoredPerson(person) ==
    [state_key |-> person.person_id,
     content |-> [pentaId |-> person.person_id, userId |-> person.matrix_id]]

IdleHandler ==
    [pc |-> "idle", roomId |-> NoRoom, event |-> Event("m.room.message", FALSE, NoId, "@u1"),
     personId |-> NoId, idx |-> 0, root |-> NoRoom, stored |-> FALSE, log |-> << >>,
     entity |-> << KindOther, NoId >>, resolved |-> << >>, inRun |-> 0]

InitHandler == handler = [h \in Handlers |-> IdleHandler]


\* Lines 83-85: the event is delivered; a membership event with
\* third_party_invite content makes the handler fetch the invite record.  The
\* run takes the first free slot.  inRun (history): the construct() call in
\* progress when the event arrived, 0 when there is none.
EventDelivered(h, roomId, event) ==
    /\ handler[h].pc = "idle"
    /\ h = "h2" => handler["h1"].pc # "idle"
    /\ delivered < MaxEvents
    /\ delivered' = delivered + 1
    /\ handler' = [handler EXCEPT ![h] =
         LET call == IF cpc \in {"idle", "done", "failed"} THEN 0 ELSE runs IN
         IF event.type = "m.room.member" /\ event.third_party_invite
         THEN [IdleHandler EXCEPT !.pc = "getRoomStateEvent", !.roomId = roomId,
                                  !.event = event, !.inRun = call,
                                  !.log = << [op |-> "getRoomStateEvent"] >>]
         ELSE [IdleHandler EXCEPT !.pc = "rejected", !.roomId = roomId, !.event = event,
                                  !.inRun = call]]
    /\ UNCHANGED <<catalogVars, envVars, constructVars, thirdPartyInvites, dbRecords>>

\* Lines 85-90: getRoomStateEvent returned the invite record's content, or
\* threw because the room has no record under that state key.
InviteReturned(h) ==
    /\ handler[h].pc = "getRoomStateEvent"
    /\ LET token == handler[h].event.token
           records == thirdPartyInvites[handler[h].roomId]
       IN handler' = [handler EXCEPT ![h] =
            IF token \notin DOMAIN records
            THEN [@ EXCEPT !.pc = "threw"]
            ELSE IF records[token].personId = NoId
            THEN [@ EXCEPT !.pc = "rejected"]
            ELSE [@ EXCEPT !.pc = "getRoomState", !.personId = records[token].personId,
                           !.log = @ \o << [op |-> "getRoomState"] >>]]
    /\ UNCHANGED <<catalogVars, envVars, constructVars, thirdPartyInvites, dbRecords, delivered>>

\* StateReturned without the comparison of the invite record's sender (line 94).
StateReturnedNoInviteCheck(h) ==
    /\ handler[h].pc = "getRoomState"
    /\ LET roomId == handler[h].roomId
           createSender == createEvent[roomId].sender
           createCheck == [op |-> "createSender", sender |-> createSender]
       IN handler' = [handler EXCEPT ![h] =
            IF createSender # Agent
            THEN [@ EXCEPT !.pc = "rejected", !.log = @ \o << createCheck >>]
            ELSE [@ EXCEPT !.pc = "findPeopleWithId",
                           !.log = @ \o << createCheck, [op |-> "findPeopleWithId"] >>]]
    /\ UNCHANGED <<catalogVars, envVars, constructVars, thirdPartyInvites, dbRecords, delivered>>

\* StateReturned with the create event's sender read after the invite
\* record's, and only when the latter is not the agent's.
StateReturnedReordered(h) ==
    /\ handler[h].pc = "getRoomState"
    /\ LET roomId == handler[h].roomId
           token == handler[h].event.token
           createSender == createEvent[roomId].sender
           inviteSender == IF token \in DOMAIN thirdPartyInvites[roomId]
                           THEN thirdPartyInvites[roomId][token].sender
                           ELSE NoId
           createCheck == [op |-> "createSender", sender |-> createSender]
           inviteCheck == [op |-> "inviteSender", sender |-> inviteSender]
       IN handler' = [handler EXCEPT ![h] =
            IF inviteSender = Agent
            THEN [@ EXCEPT !.pc = "findPeopleWithId",
                           !.log = @ \o << inviteCheck, [op |-> "findPeopleWithId"] >>]
            ELSE [@ EXCEPT !.pc = "rejected", !.log = @ \o << inviteCheck, createCheck >>]]
    /\ UNCHANGED <<catalogVars, envVars, constructVars, thirdPartyInvites, dbRecords, delivered>>

\* Lines 90-97: the full room state returned; the senders of the create event
\* and of the invite record under the event's token are compared with the
\* agent's user ID, in that order, and then the backend is asked.
StateReturned(h) ==
    /\ handler[h].pc = "getRoomState"
    /\ LET roomId == handler[h].roomId
           token == handler[h].event.token
           createSender == createEvent[roomId].sender
           inviteSender == IF token \in DOMAIN thirdPartyInvites[roomId]
                           THEN thirdPartyInvites[roomId][token].sender
                           ELSE NoId
           createCheck == [op |-> "createSender", sender |-> createSender]
           inviteCheck == [op |-> "inviteSender", sender |-> inviteSender]
       IN handler' = [handler EXCEPT ![h] =
            IF createSender # Agent
            THEN [@ EXCEPT !.pc = "rejected", !.log = @ \o << createCheck >>]
            ELSE IF inviteSender # Agent
            THEN [@ EXCEPT !.pc = "rejected", !.log = @ \o << createCheck, inviteCheck >>]
            ELSE [@ EXCEPT !.pc = "findPeopleWithId",
                           !.log = @ \o << createCheck, inviteCheck,
                                           [op |-> "findPeopleWithId"] >>]]
    /\ UNCHANGED <<catalogVars, envVars, constructVars, thirdPartyInvites, dbRecords, delivered>>

\* createUpdatePerson up to its await (lines 101-103, 528-529) for the backend
\* record at position idx: the clone is stamped with the event's state_key
\* and the stored-person event is sent to the root room.  Without a root room
\* this.dbRoom.roomId throws.
CallCreateUpdatePerson(run, idx) ==
    IF dbRoom = NoRoom
    THEN [run EXCEPT !.pc = "threw", !.idx = idx,
                     !.log = @ \o << [op |-> "createUpdatePerson"] >>]
    ELSE [run EXCEPT !.pc = "sendStateEvent", !.idx = idx, !.root = dbRoom,
                     !.stored = FALSE,
                     !.log = @ \o << [op |-> "createUpdatePerson"] >>]

\* PeopleReturned with the redeemer cached for the person ID before the
\* backend's answer is looked at.
PeopleReturnedCaching(h) ==
    /\ handler[h].pc = "findPeopleWithId"
    /\ people' = Put(people, handler[h].personId, handler[h].event.state_key)
    /\ handler' = [handler EXCEPT ![h] =
         IF Len(findPeopleWithId(handler[h].personId)) = 0
         THEN [@ EXCEPT !.pc = "rejected"]
         ELSE CallCreateUpdatePerson(@, 1)]
    /\ UNCHANGED <<dbRoom, subspaces, auditoriums, auditoriumBackstages, talks,
                   interestRooms, envVars, constructVars, thirdPartyInvites, dbRecords,
                   delivered>>

\* Lines 97-103: the backend answered; with at least one record the loop starts.
PeopleReturned(h) ==
    /\ handler[h].pc = "findPeopleWithId"
    /\ handler' = [handler EXCEPT ![h] =
         IF Len(findPeopleWithId(handler[h].personId)) = 0
         THEN [@ EXCEPT !.pc = "rejected"]
         ELSE CallCreateUpdatePerson(@, 1)]
    /\ UNCHANGED <<catalogVars, envVars, constructVars, thirdPartyInvites, dbRecords, delivered>>

\* The stored-person event a run is sending.
StoredPersonOf(run) ==
    makeStoredPerson([findPeopleWithId(run.personId)[run.idx]
                        EXCEPT !.matrix_id = run.event.state_key])

\* The homeserver applies the state event sent at line 529.
StateEventStored(h) ==
    /\ handler[h].pc = "sendStateEvent"
    /\ ~handler[h].stored
    /\ LET ev == StoredPersonOf(handler[h]) IN
         storedPersonState' = [storedPersonState EXCEPT ![handler[h].root] =
                                  Put(@, ev.state_key, ev.content.userId)]
    /\ handler' = [handler EXCEPT ![h].stored = TRUE]
    /\ UNCHANGED <<catalogVars, createEvent, storedSubspaceState, aliasTarget,
                   constructVars, thirdPartyInvites, dbRecords, delivered>>

\* Lines 107-127: the reverse lookup of the room, auditorium first, then
\* backstage, then talk.
EntityKindOf(roomId) ==
    IF \E a \in DOMAIN auditoriums : auditoriums[a] = roomId THEN KindAuditorium
    ELSE IF \E a \in DOMAIN auditoriumBackstages : auditoriumBackstages[a] = roomId
    THEN KindAuditoriumBackstage
    ELSE IF \E t \in DOMAIN talks : talks[t] = roomId THEN KindTalk
    ELSE KindOther

\* The entity the reverse lookup finds: its kind and its logical ID.
EntityOf(roomId) ==
    LET kind == EntityKindOf(roomId) IN
    CASE kind = KindAuditorium ->
           << kind, CHOOSE a \in DOMAIN auditoriums : auditoriums[a] = roomId >>
      [] kind = KindAuditoriumBackstage ->
           << kind, CHOOSE a \in DOMAIN auditoriumBackstages :
                        auditoriumBackstages[a] = roomId >>
      [] kind = KindTalk -> << kind, CHOOSE t \in DOMAIN talks : talks[t] = roomId >>
      [] OTHER -> << KindOther, NoId >>

\* Lines 530-531 and 104-112: sendStateEvent returned; the person cache is
\* updated, and the loop goes on to the next backend record or, after the
\* last one, to the permission update of the room's entity.
StateEventSent(h) ==
    /\ handler[h].pc = "sendStateEvent"
    /\ handler[h].stored
    /\ LET ev == StoredPersonOf(handler[h]) IN
         people' = Put(people, ev.content.pentaId, ev.content.userId)
    /\ handler' = [handler EXCEPT ![h] =
         IF handler[h].idx < Len(findPeopleWithId(handler[h].personId))
         THEN CallCreateUpdatePerson(@, handler[h].idx + 1)
         ELSE IF EntityKindOf(handler[h].roomId) # KindOther
         THEN [@ EXCEPT !.pc = "getModerators",
                        !.entity = EntityOf(handler[h].roomId),
                        !.log = @ \o << [op |-> "getModerators"] >>]
         ELSE [@ EXCEPT !.pc = "applied"]]
    /\ UNCHANGED <<dbRoom, subspaces, auditoriums, auditoriumBackstages, talks,
                   interestRooms, envVars, constructVars, thirdPartyInvites, dbRecords, delivered>>

\* StateEventNotSent with the person cache updated before the outcome of
\* sendStateEvent is known.
StateEventNotSentCached(h) ==
    /\ handler[h].pc = "sendStateEvent"
    /\ ~handler[h].stored
    /\ LET ev == StoredPersonOf(handler[h]) IN
         people' = Put(people, ev.content.pentaId, ev.content.userId)
    /\ handler' = [handler EXCEPT ![h].pc = "threw"]
    /\ UNCHANGED <<dbRoom, subspaces, auditoriums, auditoriumBackstages, talks,
                   interestRooms, envVars, constructVars, thirdPartyInvites, dbRecords,
                   delivered>>

\* sendStateEvent threw (line 529): createUpdatePerson rejects before line
\* 530, and with it the handler.
StateEventNotSent(h) ==
    /\ handler[h].pc = "sendStateEvent"
    /\ ~handler[h].stored
    /\ UNCHANGED people
    /\ handler' = [handler EXCEPT ![h].pc = "threw"]
    /\ UNCHANGED <<dbRoom, subspaces, auditoriums, auditoriumBackstages, talks,
                   interestRooms, envVars, constructVars, thirdPartyInvites, dbRecords,
                   delivered>>

\* The run is over; the next event may be handled.
HandlerEnded(h) ==
    /\ handler[h].pc \in {"applied", "rejected", "threw"}
    /\ handler' = [handler EXCEPT ![h] = IdleHandler]
    /\ UNCHANGED <<catalogVars, envVars, constructVars, thirdPartyInvites, dbRecords, delivered>>

(***************************************************************************)
(* InviteCommand.ensureInvited: the membership reconciler.                 *)
(***************************************************************************)

\* The users whose membership the rooms record.
InviteUserIds == UserIds \cup {"@u3"}

\* The membership field of an m.room.member event.
Memberships == {"join", "invite", "leave", "ban"}

\* effectiveMembership with a pending invite counted as a join.
effectiveMembershipOrInvite(raw) ==
    IF raw \in {"join", "invite"} THEN "join" ELSE "leave"

\* MembershipEvent.effectiveMembership
effectiveMembership(raw) ==
    IF raw = "join" THEN "join" ELSE IF raw = "invite" THEN "invite" ELSE "leave"

\* A ResolvedPersonIdentifier: the person, the platform identity if one was
\* resolved, and whether an e-mail address is known.
ResolvedPersonIdentifier(personId, mxid, emails) ==
    [person |-> [person_id |-> personId], mxid |-> mxid, emails |-> emails]

\* The target lists handed to ensureInvited.  The list of "si-support" is not
\* de-duplicated (lines 81-86).
TargetLists ==
    { << >>,
      << ResolvedPersonIdentifier("p1", "@u1", FALSE),
         ResolvedPersonIdentifier("p3", "@u3", FALSE) >>,
      << ResolvedPersonIdentifier("p1", NoId, TRUE),
         ResolvedPersonIdentifier("p1", NoId, TRUE) >>,
      << ResolvedPersonIdentifier("p1", "@u1", FALSE),
         ResolvedPersonIdentifier("p2", "@u2", FALSE) >>,
      << ResolvedPersonIdentifier("p3", NoId, FALSE),
         ResolvedPersonIdentifier("p2", "@u2", FALSE) >>,
      << ResolvedPersonIdentifier("p2", NoId, TRUE) >>,
      << ResolvedPersonIdentifier("p2", "@u2", FALSE),
         ResolvedPersonIdentifier("p1", NoId, TRUE),
         ResolvedPersonIdentifier("p3", "@u3", FALSE) >> }

IdleEnsure ==
    [pc |-> "idle", roomId |-> NoRoom, people |-> << >>, idx |-> 0,
     emailInvitePersonIds |-> {}, effectiveJoinedUserIds |-> {},
     state |-> EmptyMap, before |-> [u \in InviteUserIds |-> "leave"], issued |-> << >>,
     members |-> [u \in InviteUserIds |-> "leave"], failed |-> {}]

\* No call has ended yet.
NoCall ==
    [returned |-> FALSE, roomId |-> NoRoom, people |-> << >>, issued |-> << >>,
     failed |-> {}, after |-> [u \in InviteUserIds |-> "leave"]]

InitEnsure == ensure = IdleEnsure /\ calls = 0 /\ lastCall = NoCall

\* Line 102 with the person ID looked up among the joined user IDs.
AlreadyJoinedByPersonId(target, joined) == target.person.person_id \in joined

\* Line 102: the target's platform identity is effectively joined.
AlreadyJoined(target, joined) == target.mxid # NoId /\ target.mxid \in joined

\* Line 103 applied only to the targets that have no platform identity.
AlreadyEmailInvitedWithoutMxid(target, personIds) ==
    target.mxid = NoId /\ target.person.person_id \in personIds

\* Line 103: a third-party invite record carries the target's person ID.
AlreadyEmailInvited(target, personIds) == target.person.person_id \in personIds

\* Lines 101-103: the index of the first target from k on that is not skipped,
\* Len(targets) + 1 if there is none.
RECURSIVE NextTarget(_, _, _, _)
NextTarget(targets, k, joined, personIds) ==
    IF k > Len(targets) THEN k
    ELSE IF AlreadyJoined(targets[k], joined) \/ AlreadyEmailInvited(targets[k], personIds)
         THEN NextTarget(targets, k + 1, joined, personIds)
         ELSE k

\* Lines 101-105 from target k on: the loop runs to its next call of
\* invitePersonToRoom, or to its end.
LoopFrom(call, k) ==
    LET n == NextTarget(call.people, k, call.effectiveJoinedUserIds, call.emailInvitePersonIds)
    IN IF n > Len(call.people)
       THEN [call EXCEPT !.pc = "done", !.idx = n]
       ELSE [call EXCEPT !.pc = "invitePersonToRoom", !.idx = n,
                         !.issued = @ \o << [op |-> "invite", target |-> call.people[n]] >>]

\* Line 97: ensureInvited is called and reads the room state.
EnsureInvited(roomId, targets) ==
    /\ ensure.pc = "idle"
    /\ calls < MaxCalls
    /\ calls' = calls + 1
    /\ ensure' = [IdleEnsure EXCEPT !.pc = "getRoomState", !.roomId = roomId,
                                    !.people = targets, !.before = membership[roomId]]
    /\ UNCHANGED <<catalogVars, envVars, constructVars, handlerVars, membership, lastCall>>

\* Lines 98-105: the room state returned; the person IDs of its third-party
\* invite records and its effectively joined users are collected, and the
\* loop starts.
EnsureStateReturned ==
    /\ ensure.pc = "getRoomState"
    /\ LET state == thirdPartyInvites[ensure.roomId]
           personIds == { state[token].personId : token \in DOMAIN state } \ {NoId}
           joined == { u \in InviteUserIds :
                         effectiveMembership(membership[ensure.roomId][u]) = "join" }
       IN ensure' = LoopFrom([ensure EXCEPT !.state = state,
                                            !.members = membership[ensure.roomId],
                                            !.emailInvitePersonIds = personIds,
                                            !.effectiveJoinedUserIds = joined], 1)
    /\ UNCHANGED <<catalogVars, envVars, constructVars, handlerVars, membership, calls, lastCall>>

\* Line 97: the read of the room state failed; the call throws.
EnsureStateFailed ==
    /\ ensure.pc = "getRoomState"
    /\ ensure' = [ensure EXCEPT !.pc = "threw"]
    /\ UNCHANGED <<catalogVars, envVars, constructVars, handlerVars, membership, calls, lastCall>>

\* The token the identity server hands out for a new e-mail invite.
FreshToken(roomId) == "e" \o ToString(Cardinality(DOMAIN thirdPartyInvites[roomId]) + 1)

\* invitePersonToRoom(target, roomId) took effect: a target with a platform
\* identity is invited by it, which the server accepts unless the user is
\* joined or banned; any other target with an e-mail address gets a
\* third-party invite record that carries the person ID.
invitePersonToRoom(target, roomId) ==
    IF target.mxid # NoId
    THEN /\ membership[roomId][target.mxid] \notin {"join", "ban"}
         /\ membership' = [membership EXCEPT ![roomId][target.mxid] = "invite"]
         /\ UNCHANGED thirdPartyInvites
    ELSE /\ target.emails
         /\ thirdPartyInvites' =
              [thirdPartyInvites EXCEPT ![roomId] =
                 Put(@, FreshToken(roomId), ThirdPartyInvite(Agent, target.person.person_id))]
         /\ UNCHANGED membership

\* Line 105: invitePersonToRoom returned; the loop goes on.
PersonInvited ==
    /\ ensure.pc = "invitePersonToRoom"
    /\ invitePersonToRoom(ensure.people[ensure.idx], ensure.roomId)
    /\ ensure' = LoopFrom(ensure, ensure.idx + 1)
    /\ UNCHANGED <<catalogVars, envVars, constructVars, handler, dbRecords, delivered, calls, lastCall>>

\* InviteFailed with the error of invitePersonToRoom left uncaught.
InviteFailedUncaught ==
    /\ ensure.pc = "invitePersonToRoom"
    /\ ensure' = [ensure EXCEPT !.pc = "threw", !.failed = @ \cup {ensure.idx}]
    /\ UNCHANGED <<catalogVars, envVars, constructVars, handlerVars, membership, calls, lastCall>>

\* Lines 106-109: invitePersonToRoom threw; the error is logged and the loop
\* goes on.
InviteFailed ==
    /\ ensure.pc = "invitePersonToRoom"
    /\ ensure' = LoopFrom([ensure EXCEPT !.failed = @ \cup {ensure.idx}], ensure.idx + 1)
    /\ UNCHANGED <<catalogVars, envVars, constructVars, handlerVars, membership, calls, lastCall>>

\* Line 111: the call is over.
EnsureEnded ==
    /\ ensure.pc \in {"done", "threw"}
    /\ ensure' = IdleEnsure
    /\ lastCall' = [returned |-> ensure.pc = "done", roomId |-> ensure.roomId,
                    people |-> ensure.people, issued |-> ensure.issued,
                    failed |-> ensure.failed, after |-> membership[ensure.roomId]]
    /\ UNCHANGED <<catalogVars, envVars, constructVars, handlerVars, membership, calls>>

\* An invited user accepts the invite to the room a call is reconciling.
UserJoined(user) ==
    /\ ensure.pc \in {"getRoomState", "invitePersonToRoom"}
    /\ membership[ensure.roomId][user] = "invite"
    /\ membership' = [membership EXCEPT ![ensure.roomId][user] = "join"]
    /\ UNCHANGED <<catalogVars, envVars, constructVars, handlerVars, ensure, calls, lastCall>>

(***************************************************************************)
(* Conference.ensurePermissionsFor: the permission reconciler.             *)
(***************************************************************************)

\* config.moderatorUserId
moderatorUserId == "@mod"

\* Line 663 without the filter: the platform identity of every target.
MxidsUnfiltered(targets) == [k \in DOMAIN targets |-> targets[k].mxid]

\* Line 663: the platform identities of the targets that have one.
RECURSIVE Mxids(_)
Mxids(targets) ==
    IF targets = << >> THEN << >>
    ELSE IF targets[1].mxid # NoId
         THEN << targets[1].mxid >> \o Mxids(Tail(targets))
         ELSE Mxids(Tail(targets))

\* Lines 671-674 with the level of a listed user raised by 50, up to 100.
RECURSIVE GrantRaised(_, _)
GrantRaised(users, mxids) ==
    IF mxids = << >> THEN users
    ELSE IF mxids[1] \in DOMAIN users /\ users[mxids[1]] # 0
         THEN GrantRaised(Put(users, mxids[1], Min(users[mxids[1]] + 50, 100)), Tail(mxids))
         ELSE GrantRaised(Put(users, mxids[1], 50), Tail(mxids))

\* Lines 671-674: every user ID whose entry is missing or falsy gets 50.
RECURSIVE Grant(_, _)
Grant(users, mxids) ==
    IF mxids = << >> THEN users
    ELSE IF mxids[1] \in DOMAIN users /\ users[mxids[1]] # 0
         THEN Grant(users, Tail(mxids))
         ELSE Grant(Put(users, mxids[1], 50), Tail(mxids))

\* Lines 669-670 with the configured moderator left as found.
PinnedAgentOnly(users) == Put(users, Agent, 100)

\* Lines 669-670: the agent and the configured moderator are set to 100.
Pinned(users) == Put(Put(users, Agent, 100), moderatorUserId, 100)

IdlePerm ==
    [pc |-> "idle", roomId |-> NoRoom, people |-> << >>, pls |-> EmptyMap,
     before |-> EmptyMap, disturbed |-> FALSE, updates |-> 0]

\* No call has ended yet.
NoPerm ==
    [returned |-> FALSE, roomId |-> NoRoom, people |-> << >>, after |-> EmptyMap]

InitPerm == perm = IdlePerm /\ permCalls = 0 /\ lastPerm = NoPerm /\ overlap = IdlePerm

\* Lines 662-668: ensurePermissionsFor is called and reads the power-level
\* record.
ensurePermissionsFor(targets, roomId) ==
    /\ perm.pc = "idle"
    /\ permCalls < MaxCalls
    /\ permCalls' = permCalls + 1
    /\ perm' = [IdlePerm EXCEPT !.pc = "getRoomStateEvent", !.roomId = roomId,
                                !.people = targets, !.before = powerLevels[roomId]]
    /\ UNCHANGED <<catalogVars, envVars, constructVars, handlerVars, inviteVars,
                   powerLevels, lastPerm, overlap>>

\* Lines 668-675: the record returned; its users map is merged and sent.
PowerLevelsReturned ==
    /\ perm.pc = "getRoomStateEvent"
    /\ perm' = [perm EXCEPT !.pc = "sendStateEvent",
                            !.pls = Grant(Pinned(powerLevels[perm.roomId]),
                                          Mxids(perm.people))]
    /\ UNCHANGED <<catalogVars, envVars, constructVars, handlerVars, inviteVars,
                   powerLevels, permCalls, lastPerm, overlap>>

\* Line 668: the read of the record failed; the call throws.
PowerLevelsFailed ==
    /\ perm.pc = "getRoomStateEvent"
    /\ perm' = [perm EXCEPT !.pc = "threw"]
    /\ UNCHANGED <<catalogVars, envVars, constructVars, handlerVars, inviteVars,
                   powerLevels, permCalls, lastPerm, overlap>>

\* Lines 675-676: the merged record was stored; the call returns.
PowerLevelsSent ==
    /\ perm.pc = "sendStateEvent"
    /\ powerLevels' = [powerLevels EXCEPT ![perm.roomId] = perm.pls]
    /\ perm' = [perm EXCEPT !.pc = "done", !.updates = @ + 1]
    /\ UNCHANGED <<catalogVars, envVars, constructVars, handlerVars, inviteVars,
                   permCalls, lastPerm, overlap>>

\* Line 675: the write was refused; the call throws.
PowerLevelsNotSent ==
    /\ perm.pc = "sendStateEvent"
    /\ perm' = [perm EXCEPT !.pc = "threw"]
    /\ UNCHANGED <<catalogVars, envVars, constructVars, handlerVars, inviteVars,
                   powerLevels, permCalls, lastPerm, overlap>>

\* Line 676: the call is over.
PermEnded ==
    /\ perm.pc \in {"done", "threw"}
    /\ perm' = IdlePerm
    /\ lastPerm' = [returned |-> perm.pc = "done", roomId |-> perm.roomId,
                    people |-> perm.people, after |-> powerLevels[perm.roomId]]
    /\ UNCHANGED <<catalogVars, envVars, constructVars, handlerVars, inviteVars,
                   powerLevels, permCalls, overlap>>

\* Somebody else writes the power-level record of the room while a call is
\* reconciling it (at most once per call).
PowerLevelsChanged(user, level) ==
    /\ perm.pc \in {"getRoomStateEvent", "sendStateEvent"}
    /\ ~perm.disturbed
    /\ powerLevels' = [powerLevels EXCEPT ![perm.roomId] = Put(@, user, level)]
    /\ powerLevels' # powerLevels
    /\ perm' = [perm EXCEPT !.disturbed = TRUE]
    /\ UNCHANGED <<catalogVars, envVars, constructVars, handlerVars, inviteVars,
                   permCalls, lastPerm, overlap>>

(***************************************************************************)
(* A second ensurePermissionsFor call on the room of the call in flight.   *)
(* Nothing in lines 662-676 keeps two calls apart: each reads the record,  *)
(* merges into its own copy and sends the copy.                            *)
(***************************************************************************)

\* Lines 662-668: the second call is made while the first one is waiting for
\* the record or for its write.
ensurePermissionsForOverlapping(targets) ==
    /\ perm.pc \in {"getRoomStateEvent", "sendStateEvent"}
    /\ overlap.pc = "idle"
    /\ overlap' = [IdlePerm EXCEPT !.pc = "getRoomStateEvent", !.roomId = perm.roomId,
                                   !.people = targets,
                                   !.before = powerLevels[perm.roomId]]
    /\ UNCHANGED <<catalogVars, envVars, constructVars, handlerVars, inviteVars,
                   powerLevels, perm, permCalls, lastPerm>>

\* Lines 668-675 of the second call: the record returned and was merged
\* (before: the record as read).
OverlappingPowerLevelsReturned ==
    /\ overlap.pc = "getRoomStateEvent"
    /\ overlap' = [overlap EXCEPT !.pc = "sendStateEvent",
                                  !.before = powerLevels[overlap.roomId],
                                  !.pls = Grant(Pinned(powerLevels[overlap.roomId]),
                                                Mxids(overlap.people))]
    /\ UNCHANGED <<catalogVars, envVars, constructVars, handlerVars, inviteVars,
                   powerLevels, perm, permCalls, lastPerm>>

\* Lines 675-676 of the second call: its copy was stored; the call returns.
OverlappingPowerLevelsSent ==
    /\ overlap.pc = "sendStateEvent"
    /\ powerLevels' = [powerLevels EXCEPT ![overlap.roomId] = overlap.pls]
    /\ overlap' = [overlap EXCEPT !.pc = "done", !.updates = @ + 1]
    /\ UNCHANGED <<catalogVars, envVars, constructVars, handlerVars, inviteVars,
                   perm, permCalls, lastPerm>>

(***************************************************************************)
(* The permission update of the room.event handler (lines 107-127).        *)
(***************************************************************************)

\* db.findAllPeopleForAuditorium and db.findAllPeopleForTalk: everyone on
\* record takes part in auditorium A1 and in its talk T1.
findAllPeopleForAuditorium(auditoriumId) ==
    IF auditoriumId = "A1" THEN dbRecords["p1"] \o dbRecords["p3"] ELSE << >>

findAllPeopleForTalk(talkId) ==
    IF talkId = "T1" THEN dbRecords["p1"] \o dbRecords["p3"] ELSE << >>

\* Lines 619-635 with the person cache taken as the fresher side: the cached
\* identity replaces the backend's.
resolvePeopleCacheFirst(records) ==
    [k \in DOMAIN records |->
        IF records[k].person_id \in DOMAIN people /\ people[records[k].person_id] # NoId
        THEN [records[k] EXCEPT !.matrix_id = people[records[k].person_id]]
        ELSE records[k]]

\* Lines 619-635: copies of the records, with the platform identity of the
\* person cache filled in where the backend has none.
resolvePeople(records) ==
    [k \in DOMAIN records |->
        IF records[k].matrix_id # NoId THEN records[k]
        ELSE IF records[k].person_id \in DOMAIN people /\ people[records[k].person_id] # NoId
        THEN [records[k] EXCEPT !.matrix_id = people[records[k].person_id]]
        ELSE records[k]]

\* Lines 601-605
getModeratorsForAuditorium(auditoriumId) ==
    SelectSeq(resolvePeople(findAllPeopleForAuditorium(auditoriumId)),
              LAMBDA p : p.event_role \in {"coordinator"})

\* Lines 607-611
getModeratorsForTalk(talkId) ==
    SelectSeq(resolvePeople(findAllPeopleForTalk(talkId)),
              LAMBDA p : p.event_role \in {"coordinator", "speaker", "host"})

\* ModeratorsOf with the auditorium's moderators asked for whatever the kind.
ModeratorsOfAuditorium(entity) == getModeratorsForAuditorium(entity[2])

\* Lines 110, 116 and 122: the moderators of the entity found, those of the
\* auditorium for an auditorium or a backstage, those of the talk for a talk.
ModeratorsOf(entity) ==
    IF entity[1] \in {KindAuditorium, KindAuditoriumBackstage}
    THEN getModeratorsForAuditorium(entity[2])
    ELSE getModeratorsForTalk(entity[2])

\* resolveIdentifiers: a person's platform identity is the one on record.
resolveIdentifiers(records) ==
    [k \in DOMAIN records |->
        ResolvedPersonIdentifier(records[k].person_id, records[k].matrix_id, FALSE)]

\* Lines 110-112: the moderators of the entity are known and resolved; the
\* permission update of the event's room is called.
ModeratorsReturned(h) ==
    /\ handler[h].pc = "getModerators"
    /\ handler' = [handler EXCEPT ![h] =
         [@ EXCEPT !.pc = "ensureModerator",
                   !.resolved = resolveIdentifiers(ModeratorsOf(handler[h].entity)),
                   !.log = @ \o << [op |-> "ensureModerator", roomId |-> handler[h].roomId] >>]]
    /\ UNCHANGED <<catalogVars, envVars, constructVars, thirdPartyInvites, dbRecords, delivered,
                   inviteVars, permVars, desired, createVars, resolveCall>>

\* PermissionsCommand.ensureModerator took effect and returned: the room's
\* power levels are reconciled with the resolved moderators.
ModeratorsEnsured(h) ==
    /\ handler[h].pc = "ensureModerator"
    /\ powerLevels' = [powerLevels EXCEPT ![handler[h].roomId] =
                          Grant(Pinned(@), Mxids(handler[h].resolved))]
    /\ handler' = [handler EXCEPT ![h].pc = "applied"]
    /\ UNCHANGED <<catalogVars, envVars, constructVars, thirdPartyInvites, dbRecords, delivered,
                   inviteVars, perm, permCalls, lastPerm, overlap, desired, createVars, resolveCall>>

(***************************************************************************)
(* Conference.getPeopleForAuditorium and Conference.getPeopleForTalk       *)
(* (lines 564-572): the backend's records of the entity, resolved.         *)
(***************************************************************************)

\* A call: the method, the records the backend returned and the records
\* resolvePeople returned for them.
IdleResolve == [pc |-> "idle", method |-> "none", records |-> << >>, returned |-> << >>]

\* Lines 564-567
getPeopleForAuditorium(auditoriumId) ==
    /\ resolveCall' = [pc |-> "returned", method |-> "getPeopleForAuditorium",
                       records |-> findAllPeopleForAuditorium(auditoriumId),
                       returned |-> resolvePeople(findAllPeopleForAuditorium(auditoriumId))]
    /\ UNCHANGED <<catalogVars, envVars, constructVars, handlerVars, inviteVars, permVars,
                   desired, createVars>>

\* Lines 569-572
getPeopleForTalk(talkId) ==
    /\ resolveCall' = [pc |-> "returned", method |-> "getPeopleForTalk",
                       records |-> findAllPeopleForTalk(talkId),
                       returned |-> resolvePeople(findAllPeopleForTalk(talkId))]
    /\ UNCHANGED <<catalogVars, envVars, constructVars, handlerVars, inviteVars, permVars,
                   desired, createVars>>

(***************************************************************************)
(* Conference.createAuditorium and Conference.createAuditoriumBackstage    *)
(* (lines 424-487).  safeCreateRoom, assignAliasVariations and the space   *)
(* calls are parts of the substrate: each returns or throws.               *)
(***************************************************************************)

\* The calls that may be in flight at the same time.
Creators == {"c1", "c2"}

\* The auditoriums of the schedule.
AuditoriumIds == {"A1", "A2"}

\* A call: the method called, the auditorium's ID, the kind of room it is
\* creating at the moment, the room safeCreateRoom returned, and whether the
\* ID was in the catalog when the method looked.
IdleCreate ==
    [pc |-> "idle", method |-> "none", id |-> NoId, stage |-> KindOther,
     roomId |-> NoRoom, found |-> FALSE]

InitCreate == creating = [c \in Creators |-> IdleCreate] /\ createdRooms = << >>

\* The room ID the homeserver gives the n-th room created.
FreshRoomId(n) == MaxRooms + n

\* Lines 468-472: createAuditoriumBackstage returns the backstage the catalog
\* holds for the ID, or goes on to create its room.
EnterBackstage(call) ==
    IF call.id \in DOMAIN auditoriumBackstages
    THEN [call EXCEPT !.stage = KindAuditoriumBackstage, !.found = TRUE,
                      !.roomId = auditoriumBackstages[call.id],
                      !.pc = IF call.method = "createAuditorium"
                             THEN "addBackstage" ELSE "done"]
    ELSE [call EXCEPT !.stage = KindAuditoriumBackstage, !.found = FALSE,
                      !.pc = "safeCreateRoom"]

\* Lines 424-430: createAuditorium returns the auditorium the catalog holds
\* for the ID, or goes on to the parent space and the auditorium's space.
createAuditorium(c, id) ==
    /\ creating[c].pc = "idle"
    /\ isCreated
    /\ creating' = [creating EXCEPT ![c] =
         IF id \in DOMAIN auditoriums
         THEN [IdleCreate EXCEPT !.pc = "done", !.method = "createAuditorium", !.id = id,
                                 !.stage = KindAuditorium, !.found = TRUE,
                                 !.roomId = auditoriums[id]]
         ELSE [IdleCreate EXCEPT !.pc = "createSpace", !.method = "createAuditorium",
                                 !.id = id, !.stage = KindAuditorium]]
    /\ UNCHANGED <<catalogVars, envVars, constructVars, handlerVars, inviteVars, permVars,
                   resolveCall, desired, createdRooms>>

\* Lines 467-472: createAuditoriumBackstage called on its own.
createAuditoriumBackstage(c, id) ==
    /\ creating[c].pc = "idle"
    /\ isCreated
    /\ creating' = [creating EXCEPT ![c] =
         EnterBackstage([IdleCreate EXCEPT !.method = "createAuditoriumBackstage",
                                           !.id = id])]
    /\ UNCHANGED <<catalogVars, envVars, constructVars, handlerVars, inviteVars, permVars,
                   resolveCall, desired, createdRooms>>

\* Lines 429-439: the parent space was found, the auditorium's space created
\* under its localpart and added to the parent; safeCreateRoom is called.
\* The homeserver gives a localpart to one room only: createSpace for an ID
\* whose space exists throws (CreateFailed).
SpaceCreated(c) ==
    /\ creating[c].pc = "createSpace"
    /\ \A i \in 1..Len(createdRooms) : createdRooms[i] # [kind |-> "space", id |-> creating[c].id]
    /\ createdRooms' = Append(createdRooms, [kind |-> "space", id |-> creating[c].id])
    /\ creating' = [creating EXCEPT ![c].pc = "safeCreateRoom"]
    /\ UNCHANGED <<catalogVars, envVars, constructVars, handlerVars, inviteVars, permVars,
                   resolveCall, desired>>

\* Lines 439-450 and 472-482: safeCreateRoom created a room for the ID and
\* returned its room ID.
RoomCreated(c) ==
    /\ creating[c].pc = "safeCreateRoom"
    /\ createdRooms' = Append(createdRooms, [kind |-> creating[c].stage, id |-> creating[c].id])
    /\ creating' = [creating EXCEPT ![c].pc = "assignAliasVariations",
                                    ![c].roomId = FreshRoomId(Len(createdRooms) + 1)]
    /\ UNCHANGED <<catalogVars, envVars, constructVars, handlerVars, inviteVars, permVars,
                   resolveCall, desired>>

\* Lines 450-458 and 482-486: the aliases were assigned and the room made a
\* child of the root room; the catalog maps the ID to the room.
AliasesAssigned(c) ==
    /\ creating[c].pc = "assignAliasVariations"
    /\ IF creating[c].stage = KindAuditorium
       THEN /\ auditoriums' = Put(auditoriums, creating[c].id, creating[c].roomId)
            /\ UNCHANGED auditoriumBackstages
            /\ creating' = [creating EXCEPT ![c].pc = "addChildRoom"]
       ELSE /\ auditoriumBackstages' =
                 Put(auditoriumBackstages, creating[c].id, creating[c].roomId)
            /\ UNCHANGED auditoriums
            /\ creating' = [creating EXCEPT ![c].pc =
                 IF creating[c].method = "createAuditorium" THEN "addBackstage" ELSE "done"]
    /\ UNCHANGED <<dbRoom, subspaces, talks, interestRooms, people, envVars, constructVars,
                   handlerVars, inviteVars, permVars, resolveCall, desired, createdRooms>>

\* Lines 458-461: the room was added to the auditorium's space;
\* createAuditoriumBackstage is called.
ChildRoomAdded(c) ==
    /\ creating[c].pc = "addChildRoom"
    /\ creating' = [creating EXCEPT ![c] = EnterBackstage(@)]
    /\ UNCHANGED <<catalogVars, envVars, constructVars, handlerVars, inviteVars, permVars,
                   resolveCall, desired, createdRooms>>

\* Lines 462-464: the backstage was added to the auditorium's space;
\* createAuditorium returns.
BackstageAdded(c) ==
    /\ creating[c].pc = "addBackstage"
    /\ creating' = [creating EXCEPT ![c].pc = "done"]
    /\ UNCHANGED <<catalogVars, envVars, constructVars, handlerVars, inviteVars, permVars,
                   resolveCall, desired, createdRooms>>

\* A call of the substrate threw (an alias is taken, the homeserver refused):
\* the method throws.
CreateFailed(c) ==
    /\ creating[c].pc \in {"createSpace", "safeCreateRoom", "assignAliasVariations",
                            "addChildRoom", "addBackstage"}
    /\ creating' = [creating EXCEPT ![c].pc = "threw"]
    /\ UNCHANGED <<catalogVars, envVars, constructVars, handlerVars, inviteVars, permVars,
                   resolveCall, desired, createdRooms>>

(***************************************************************************)
(* Conference.getDesiredParentSpace.  Auditorium and interest room IDs and *)
(* the configured prefixes are sequences of characters.                    *)
(***************************************************************************)

\* config.conference.subspaces, in the order of Object.entries.
ConfiguredSubspaces ==
    << [subspaceId |-> "S1", prefixes |-> << <<"A">>, <<"B", ".">> >>],
       [subspaceId |-> "S2", prefixes |-> << <<"A", "1">>, <<"B">> >>] >>

\* The space of the conference's root room.
TopLevelSpace == "!space"

\* String.prototype.startsWith
startsWith(id, prefix) ==
    Len(prefix) <= Len(id) /\ SubSeq(id, 1, Len(prefix)) = prefix

\* Lines 544-546: the index of the first configured subspace from k on one of
\* whose prefixes the ID starts with, 0 if there is none.
RECURSIVE MatchingSubspace(_, _)
MatchingSubspace(id, k) ==
    IF k > Len(ConfiguredSubspaces) THEN 0
    ELSE IF \E n \in DOMAIN ConfiguredSubspaces[k].prefixes :
              startsWith(id, ConfiguredSubspaces[k].prefixes[n])
         THEN k
         ELSE MatchingSubspace(id, k + 1)

IdleDesired == [pc |-> "idle", id |-> << >>, result |-> NoId, missing |-> NoId]

\* Lines 547-551 with the top-level space taken for a subspace that was never
\* created.
SubspaceOrTopLevel(call, subspaceId) ==
    IF subspaceId \in DOMAIN subspaces
    THEN [call EXCEPT !.pc = "returned", !.result = subspaces[subspaceId]]
    ELSE [call EXCEPT !.pc = "getSpace"]

\* Lines 547-551: the subspace of the index, or an error that names the
\* subspace.
SubspaceOrError(call, subspaceId) ==
    IF subspaceId \in DOMAIN subspaces
    THEN [call EXCEPT !.pc = "returned", !.result = subspaces[subspaceId]]
    ELSE [call EXCEPT !.pc = "threw", !.missing = subspaceId]

\* Lines 539-555: getDesiredParentSpace is called for an auditorium or
\* interest room with this ID.
getDesiredParentSpace(id) ==
    /\ desired.pc = "idle"
    /\ LET k == MatchingSubspace(id, 1)
           call == [IdleDesired EXCEPT !.id = id]
       IN desired' = IF k = 0
                     THEN [call EXCEPT !.pc = "getSpace"]
                     ELSE SubspaceOrError(call, ConfiguredSubspaces[k].subspaceId)
    /\ UNCHANGED <<catalogVars, envVars, constructVars, handlerVars, inviteVars, permVars,
                   createVars, resolveCall>>

\* Lines 556-557, 287-289: the root room's space was fetched.
TopSpaceReturned ==
    /\ desired.pc = "getSpace"
    /\ desired' = [desired EXCEPT !.pc = "returned", !.result = TopLevelSpace]
    /\ UNCHANGED <<catalogVars, envVars, constructVars, handlerVars, inviteVars, permVars,
                   createVars, resolveCall>>

\* Lines 556-557, 287-289: the fetch of the root room's space failed.
TopSpaceFailed ==
    /\ desired.pc = "getSpace"
    /\ desired' = [desired EXCEPT !.pc = "threw"]
    /\ UNCHANGED <<catalogVars, envVars, constructVars, handlerVars, inviteVars, permVars,
                   createVars, resolveCall>>

\* The call is over.
DesiredEnded ==
    /\ desired.pc \in {"returned", "threw"}
    /\ desired' = IdleDesired
    /\ UNCHANGED <<catalogVars, envVars, constructVars, handlerVars, inviteVars, permVars,
                   createVars, resolveCall>>

InitCatalog ==
    /\ dbRoom = NoRoom
    /\ subspaces = EmptyMap
    /\ auditoriums = EmptyMap
    /\ auditoriumBackstages = EmptyMap
    /\ talks = EmptyMap
    /\ interestRooms = EmptyMap
    /\ people = EmptyMap

InitConstruct ==
    /\ cpc = "idle"
    /\ runs = 0
    /\ roomIds = << >>
    /\ batchStart = 0
    /\ interestIdx = 0
    /\ rootRead = NoRoom
    /\ subspaceKeys = <<>>
    /\ tasks = {}
    /\ faulted = FALSE
    /\ preCatalog = NoCatalog
    /\ lastDone = NoCatalog
    /\ prevDone = NoCatalog
    /\ failCause = "none"
    /\ failedRoom = NoRoom

\* A freshly constructed Conference among joined rooms with any creation records.
InitRebuild ==
    /\ desired = IdleDesired
    /\ InitCreate
    /\ resolveCall = IdleResolve
    /\ InitPerm
    /\ powerLevels = [r \in Rooms |-> (Agent :> 100)]
    /\ InitEnsure
    /\ membership = [r \in Rooms |-> [u \in InviteUserIds |-> "leave"]]
    /\ InitCatalog
    /\ InitConstruct
    /\ createEvent \in [Rooms -> CreateRecords]
    /\ \E st \in SubstrateOptions :
         /\ storedPersonState = [r \in Rooms |-> st.people]
         /\ storedSubspaceState = [r \in Rooms |-> st.subspaces]
         /\ aliasTarget = st.alias
    /\ InitHandler
    /\ thirdPartyInvites = [r \in Rooms |-> EmptyMap]
    /\ dbRecords = BackendRecords /\ delivered = 0

NextRebuild ==
    \/ Construct /\ UNCHANGED <<handlerVars, inviteVars, permVars, desired, createVars, resolveCall>>
    \/ JoinedRoomsReturned(JoinedRooms) /\ UNCHANGED <<handlerVars, inviteVars, permVars, desired, createVars, resolveCall>>
    \/ JoinedRoomsFailed /\ UNCHANGED <<handlerVars, inviteVars, permVars, desired, createVars, resolveCall>>
    \/ \E t \in tasks : TaskReturned(t) /\ UNCHANGED <<handlerVars, inviteVars, permVars, desired, createVars, resolveCall>>
    \/ \E t \in tasks : TaskFailed(t) /\ UNCHANGED <<handlerVars, inviteVars, permVars, desired, createVars, resolveCall>>
    \/ ResolveReturned /\ UNCHANGED <<handlerVars, inviteVars, permVars, desired, createVars, resolveCall>>
    \/ RoomStateReturned /\ UNCHANGED <<handlerVars, inviteVars, permVars, desired, createVars, resolveCall>>
    \/ RoomStateFailed /\ UNCHANGED <<handlerVars, inviteVars, permVars, desired, createVars, resolveCall>>
    \/ SpaceReturned /\ UNCHANGED <<handlerVars, inviteVars, permVars, desired, createVars, resolveCall>>

SpecRebuild == InitRebuild /\ [][NextRebuild]_vars

(***************************************************************************)
(* Rebuilds among rooms that leave scope: the agent may have left a joined *)
(* room by the time getJoinedRooms is called.                              *)
(***************************************************************************)

\* The creation records of the rooms of a venue that turn up in the rebuilds.
ScopeRecords ==
    { CreateEvent(ConferenceId, KindConference, NoId, NoId, NoId, Agent),
      CreateEvent(ConferenceId, KindAuditorium, "A1", NoId, NoId, Agent),
      CreateEvent(ConferenceId, KindTalk, "A1", "T1", NoId, Agent) }

\* What getJoinedRooms may return: every room, or every room but one the
\* agent has left.
JoinedLists ==
    { JoinedRooms }
    \cup { SelectSeq(JoinedRooms, LAMBDA r : r # left) : left \in Rooms }

InitScope ==
    /\ desired = IdleDesired
    /\ InitCreate
    /\ resolveCall = IdleResolve
    /\ InitPerm
    /\ powerLevels = [r \in Rooms |-> (Agent :> 100)]
    /\ InitEnsure
    /\ membership = [r \in Rooms |-> [u \in InviteUserIds |-> "leave"]]
    /\ InitCatalog
    /\ InitConstruct
    /\ createEvent \in [Rooms -> ScopeRecords]
    /\ \E st \in SubstrateOptions :
         /\ storedPersonState = [r \in Rooms |-> st.people]
         /\ storedSubspaceState = [r \in Rooms |-> st.subspaces]
         /\ aliasTarget = st.alias
    /\ InitHandler
    /\ thirdPartyInvites = [r \in Rooms |-> EmptyMap]
    /\ dbRecords = BackendRecords /\ delivered = 0

NextScope ==
    \/ Construct /\ UNCHANGED <<handlerVars, inviteVars, permVars, desired, createVars, resolveCall>>
    \/ \E list \in JoinedLists :
          JoinedRoomsReturned(list) /\ UNCHANGED <<handlerVars, inviteVars, permVars, desired, createVars, resolveCall>>
    \/ JoinedRoomsFailed /\ UNCHANGED <<handlerVars, inviteVars, permVars, desired, createVars, resolveCall>>
    \/ \E t \in tasks : TaskReturned(t) /\ UNCHANGED <<handlerVars, inviteVars, permVars, desired, createVars, resolveCall>>
    \/ \E t \in tasks : TaskFailed(t) /\ UNCHANGED <<handlerVars, inviteVars, permVars, desired, createVars, resolveCall>>
    \/ ResolveReturned /\ UNCHANGED <<handlerVars, inviteVars, permVars, desired, createVars, resolveCall>>
    \/ RoomStateReturned /\ UNCHANGED <<handlerVars, inviteVars, permVars, desired, createVars, resolveCall>>
    \/ RoomStateFailed /\ UNCHANGED <<handlerVars, inviteVars, permVars, desired, createVars, resolveCall>>
    \/ SpaceReturned /\ UNCHANGED <<handlerVars, inviteVars, permVars, desired, createVars, resolveCall>>

SpecScope == InitScope /\ [][NextScope]_vars

(***************************************************************************)
(* The handler on a conference whose rooms were all created for it: room 1 *)
(* is the root room, room 2 auditorium A1, room 3 talk T1, any further     *)
(* room the backstage of A1.                                               *)
(***************************************************************************)
VenueKind(r) ==
    CASE r = 1 -> KindConference
      [] r = 2 -> KindAuditorium
      [] r = 3 -> KindTalk
      [] OTHER -> KindAuditoriumBackstage

VenueCreateEvent(r, sender) ==
    CASE r = 1 -> CreateEvent(ConferenceId, KindConference, NoId, NoId, NoId, sender)
      [] r = 2 -> CreateEvent(ConferenceId, KindAuditorium, "A1", NoId, NoId, sender)
      [] r = 3 -> CreateEvent(ConferenceId, KindTalk, "A1", "T1", NoId, sender)
      [] OTHER -> CreateEvent(ConferenceId, KindAuditoriumBackstage, "A1", NoId, NoId, sender)

\* What the rooms' state may hold when a redemption arrives: who sent the
\* create event, and the invite records by token.
RoomProfiles ==
    { [creator |-> Agent, invites |-> ("t1" :> ThirdPartyInvite(Agent, "p1"))],
      [creator |-> Agent, invites |-> ("t1" :> ThirdPartyInvite(Agent, "p2"))],
      [creator |-> Agent, invites |-> ("t1" :> ThirdPartyInvite(Stranger, "p1"))],
      [creator |-> Stranger, invites |-> ("t1" :> ThirdPartyInvite(Agent, "p1"))],
      [creator |-> Agent, invites |-> ("t1" :> ThirdPartyInvite(Agent, NoId))],
      [creator |-> Agent, invites |-> EmptyMap] }

\* The catalog construct() builds for the venue's rooms.
VenueCatalog(storedPeople) ==
    /\ dbRoom = 1
    /\ subspaces = EmptyMap
    /\ auditoriums = ("A1" :> 2)
    /\ auditoriumBackstages = [a \in {"A1"} \cap {IF MaxRooms > 3 THEN "A1" ELSE NoId} |-> 4]
    /\ talks = ("T1" :> 3)
    /\ interestRooms = EmptyMap
    /\ people = storedPeople

\* Either a Conference on which construct() has not run yet, or one whose
\* construct() has returned.
InitVerifier ==
    /\ desired = IdleDesired
    /\ InitCreate
    /\ resolveCall = IdleResolve
    /\ InitPerm
    /\ powerLevels = [r \in Rooms |-> (Agent :> 100)]
    /\ InitConstruct
    /\ InitEnsure
    /\ membership = [r \in Rooms |-> [u \in InviteUserIds |-> "leave"]]
    /\ InitHandler
    /\ aliasTarget = [a \in Aliases |-> NoRoom]
    /\ storedSubspaceState = [r \in Rooms |-> EmptyMap]
    /\ \E profile \in RoomProfiles :
         /\ createEvent = [r \in Rooms |-> VenueCreateEvent(r, profile.creator)]
         /\ thirdPartyInvites = [r \in Rooms |-> profile.invites]
         /\ dbRecords = BackendRecords /\ delivered = 0
    /\ \E storedPeople \in {EmptyMap, ("p1" :> "@u1")} :
         /\ storedPersonState = [r \in Rooms |-> IF r = 1 THEN storedPeople ELSE EmptyMap]
         /\ \/ InitCatalog
            \/ VenueCatalog(storedPeople)

NextVerifier ==
    \/ \E h \in Handlers, r \in Rooms, e \in Events :
          EventDelivered(h, r, e) /\ UNCHANGED <<inviteVars, permVars, desired, createVars, resolveCall>>
    \/ \E h \in Handlers : InviteReturned(h) /\ UNCHANGED <<inviteVars, permVars, desired, createVars, resolveCall>>
    \/ \E h \in Handlers : StateReturned(h) /\ UNCHANGED <<inviteVars, permVars, desired, createVars, resolveCall>>
    \/ \E h \in Handlers : PeopleReturned(h) /\ UNCHANGED <<inviteVars, permVars, desired, createVars, resolveCall>>
    \/ \E h \in Handlers : StateEventStored(h) /\ UNCHANGED <<inviteVars, permVars, desired, createVars, resolveCall>>
    \/ \E h \in Handlers : StateEventSent(h) /\ UNCHANGED <<inviteVars, permVars, desired, createVars, resolveCall>>
    \/ \E h \in Handlers : StateEventNotSent(h) /\ UNCHANGED <<inviteVars, permVars, desired, createVars, resolveCall>>
    \/ \E h \in Handlers : ModeratorsReturned(h)
    \/ \E h \in Handlers : ModeratorsEnsured(h)
    \/ \E h \in Handlers : HandlerEnded(h) /\ UNCHANGED <<inviteVars, permVars, desired, createVars, resolveCall>>

SpecVerifier == InitVerifier /\ [][NextVerifier]_vars


(***************************************************************************)
(* Properties of the rebuild.                                              *)
(***************************************************************************)

\* Room r carries this conference's ID and the kind flag k.
IsOfKind(r, k) == createEvent[r].conf = ConferenceId /\ createEvent[r].kind = k

\* No two joined rooms claim the same (conference ID, entity type, logical ID).
NoDuplicateClaims ==
    \A r1, r2 \in Rooms :
        (r1 # r2 /\ createEvent[r1].conf = ConferenceId
                 /\ createEvent[r2].conf = ConferenceId
                 /\ createEvent[r1].kind = createEvent[r2].kind)
        => CASE createEvent[r1].kind = KindAuditorium ->
                  createEvent[r1].auditoriumId # createEvent[r2].auditoriumId
             [] createEvent[r1].kind = KindAuditoriumBackstage ->
                  createEvent[r1].auditoriumId # createEvent[r2].auditoriumId
             [] createEvent[r1].kind = KindTalk ->
                  createEvent[r1].talkId # createEvent[r2].talkId
             [] createEvent[r1].kind = KindSpecialInterest ->
                  createEvent[r1].interestId # createEvent[r2].interestId
             [] OTHER -> FALSE

\* Room r, if it belongs to this conference, is found in the catalog bucket
\* of its kind under its logical ID.
Cataloged(r) ==
    /\ IsOfKind(r, KindConference) => dbRoom # NoRoom
    /\ IsOfKind(r, KindAuditorium) => createEvent[r].auditoriumId \in DOMAIN auditoriums
    /\ IsOfKind(r, KindAuditoriumBackstage) =>
           createEvent[r].auditoriumId \in DOMAIN auditoriumBackstages
    /\ IsOfKind(r, KindTalk) => createEvent[r].talkId \in DOMAIN talks
    /\ IsOfKind(r, KindSpecialInterest) => createEvent[r].interestId \in DOMAIN interestRooms

\* The catalog holds everything a finished rebuild of this substrate holds.
CatalogComplete ==
    /\ \A r \in Rooms : Cataloged(r)
    /\ \A j \in 1..Len(ExistingInterestRooms) :
           aliasTarget[ExistingInterestRooms[j][2]] # NoRoom
           => ExistingInterestRooms[j][1] \in DOMAIN interestRooms
    /\ dbRoom # NoRoom =>
           /\ DOMAIN storedPersonState[dbRoom] \subseteq DOMAIN people
           /\ DOMAIN storedSubspaceState[dbRoom] \subseteq DOMAIN subspaces

ConstructInProgress ==
    cpc \in {"getJoinedRooms", "batches", "resolveRoom", "getRoomState", "getSpace"}

\* C4, as stated: whenever construct() returns after an earlier construct()
\* returned on the same rooms, the two catalogs are identical.
C4_RebuildIdempotentAnyRooms ==
    (cpc = "done" /\ prevDone # NoCatalog) => lastDone = prevDone

\* C4, amended: whenever construct() returns after an earlier construct()
\* returned on the same rooms, and no two joined rooms claim the same
\* (conference ID, kind, logical ID), the two catalogs are identical, whatever
\* the order in which the reads of a batch completed.
C4_RebuildIdempotent ==
    (cpc = "done" /\ prevDone # NoCatalog /\ NoDuplicateClaims) => lastDone = prevDone

C4_Witness ==
    /\ cpc = "done"
    /\ prevDone # NoCatalog
    /\ NoDuplicateClaims
    /\ lastDone = prevDone
    /\ dbRoom # NoRoom
    /\ DOMAIN auditoriums # {}
    /\ DOMAIN talks # {}
    /\ DOMAIN people # {}

\* C5: when construct() ended because one room's creation-record read failed,
\* every other room of that batch and of the later batches that belongs to
\* this conference is in the catalog.
C5_OtherRoomsStillCataloged ==
    (cpc = "failed" /\ failCause = "createEvent")
    => \A j \in (batchStart + 1)..Len(JoinedRooms) :
           JoinedRooms[j] # failedRoom => Cataloged(JoinedRooms[j])

\* C6: when construct() has failed, the catalog holds exactly what it held
\* before the call.
C6_FailedRebuildKeepsCatalog ==
    cpc = "failed" => Catalog = preCatalog

\* C7: at every suspension point of a construct() in progress the catalog is
\* either the complete catalog from before the call or a complete rebuilt one.
C7_ReadersSeeWholeCatalog ==
    ConstructInProgress => (Catalog = preCatalog \/ CatalogComplete)

\* C8: when construct() returns, every room with this conference's ID, kind X
\* and logical ID Y stands for key Y of bucket X (the bucket maps Y to a room
\* with that very creation record), and every bucket entry comes from such a
\* room: no room of another conference and no room of another kind or key is
\* in any bucket.  (An interest room may also come from the configuration.)
C8_ClassifierCorrect ==
    cpc = "done" =>
      /\ \A r \in Rooms :
           /\ IsOfKind(r, KindConference) =>
                dbRoom # NoRoom /\ createEvent[dbRoom] = createEvent[r]
           /\ IsOfKind(r, KindAuditorium) =>
                /\ createEvent[r].auditoriumId \in DOMAIN auditoriums
                /\ createEvent[auditoriums[createEvent[r].auditoriumId]] = createEvent[r]
           /\ IsOfKind(r, KindAuditoriumBackstage) =>
                /\ createEvent[r].auditoriumId \in DOMAIN auditoriumBackstages
                /\ createEvent[auditoriumBackstages[createEvent[r].auditoriumId]]
                     = createEvent[r]
           /\ IsOfKind(r, KindTalk) =>
                /\ createEvent[r].talkId \in DOMAIN talks
                /\ createEvent[talks[createEvent[r].talkId]] = createEvent[r]
           /\ IsOfKind(r, KindSpecialInterest) =>
                /\ createEvent[r].interestId \in DOMAIN interestRooms
                /\ createEvent[interestRooms[createEvent[r].interestId]] = createEvent[r]
      /\ dbRoom # NoRoom => IsOfKind(dbRoom, KindConference)
      /\ \A y \in DOMAIN auditoriums :
           IsOfKind(auditoriums[y], KindAuditorium)
           /\ createEvent[auditoriums[y]].auditoriumId = y
      /\ \A y \in DOMAIN auditoriumBackstages :
           IsOfKind(auditoriumBackstages[y], KindAuditoriumBackstage)
           /\ createEvent[auditoriumBackstages[y]].auditoriumId = y
      /\ \A y \in DOMAIN talks :
           IsOfKind(talks[y], KindTalk) /\ createEvent[talks[y]].talkId = y
      /\ \A y \in DOMAIN interestRooms :
           \/ IsOfKind(interestRooms[y], KindSpecialInterest)
              /\ createEvent[interestRooms[y]].interestId = y
           \/ \E j \in 1..Len(ExistingInterestRooms) :
                /\ ExistingInterestRooms[j][1] = y
                /\ aliasTarget[ExistingInterestRooms[j][2]] = interestRooms[y]

\* The end-to-end scenario: room 1 is auditorium A1 of this conference, room 2
\* is talk T1 of another conference; the rebuild gives one auditorium, no talk.
C8_Witness ==
    /\ cpc = "done"
    /\ createEvent[1] = CreateEvent(ConferenceId, KindAuditorium, "A1", NoId, NoId, Agent)
    /\ createEvent[2] = CreateEvent(OtherConference, KindTalk, "A1", "T1", NoId, Agent)
    /\ auditoriums = ("A1" :> 1)
    /\ talks = EmptyMap


(***************************************************************************)
(* ensureInvited on the rooms of the venue.                                *)
(***************************************************************************)

\* The memberships a room may hold when ensureInvited is called.
MembershipOptions ==
    { [u \in InviteUserIds |-> "leave"],
      [u \in InviteUserIds |-> IF u = "@u3" THEN "leave" ELSE "join"],
      [u \in InviteUserIds |-> IF u = "@u1" THEN "invite" ELSE IF u = "@u2" THEN "ban" ELSE "join"] }

\* The third-party invite records a room may hold when ensureInvited is called.
PendingInvites ==
    { EmptyMap,
      ("t1" :> ThirdPartyInvite(Agent, "p1")),
      ("t1" :> ThirdPartyInvite(Agent, NoId)) }

InitInvite ==
    /\ desired = IdleDesired
    /\ InitCreate
    /\ resolveCall = IdleResolve
    /\ InitPerm
    /\ powerLevels = [r \in Rooms |-> (Agent :> 100)]
    /\ InitConstruct
    /\ InitHandler
    /\ InitEnsure
    /\ VenueCatalog(EmptyMap)
    /\ aliasTarget = [a \in Aliases |-> NoRoom]
    /\ storedSubspaceState = [r \in Rooms |-> EmptyMap]
    /\ storedPersonState = [r \in Rooms |-> EmptyMap]
    /\ createEvent = [r \in Rooms |-> VenueCreateEvent(r, Agent)]
    /\ \E pending \in PendingInvites : thirdPartyInvites = [r \in Rooms |-> pending]
    /\ dbRecords = BackendRecords /\ delivered = 0
    /\ \E option \in MembershipOptions : membership = [r \in Rooms |-> option]

\* The rooms ensureInvited is called on: the auditorium and the talk room.
InviteRooms == { r \in Rooms : VenueKind(r) \in {KindAuditorium, KindTalk} }

NextInvite ==
    \/ \E r \in InviteRooms, targets \in TargetLists :
          EnsureInvited(r, targets) /\ UNCHANGED <<permVars, desired, createVars, resolveCall>>
    \/ EnsureStateReturned /\ UNCHANGED <<permVars, desired, createVars, resolveCall>>
    \/ EnsureStateFailed /\ UNCHANGED <<permVars, desired, createVars, resolveCall>>
    \/ PersonInvited /\ UNCHANGED <<permVars, desired, createVars, resolveCall>>
    \/ InviteFailed /\ UNCHANGED <<permVars, desired, createVars, resolveCall>>
    \/ EnsureEnded /\ UNCHANGED <<permVars, desired, createVars, resolveCall>>
    \/ \E u \in InviteUserIds : UserJoined(u) /\ UNCHANGED <<permVars, desired, createVars, resolveCall>>

SpecInvite == InitInvite /\ [][NextInvite]_vars

(***************************************************************************)
(* ensurePermissionsFor on the rooms of the venue.                         *)
(***************************************************************************)

\* The moderator lists handed to ensurePermissionsFor.
ModeratorLists ==
    { << ResolvedPersonIdentifier("p2", NoId, TRUE) >>,
      << ResolvedPersonIdentifier("p1", "@u1", FALSE),
         ResolvedPersonIdentifier("p3", "@u3", FALSE) >>,
      << ResolvedPersonIdentifier("p2", "@u2", FALSE),
         ResolvedPersonIdentifier("p1", NoId, TRUE),
         ResolvedPersonIdentifier("p2", "@u2", FALSE) >>,
      << ResolvedPersonIdentifier("p4", moderatorUserId, FALSE),
         ResolvedPersonIdentifier("p1", "@u1", FALSE) >>,
      << ResolvedPersonIdentifier("p5", Agent, FALSE) >> }

\* The users maps a room's power-level record may hold when
\* ensurePermissionsFor is called.
UsersOptions ==
    { (Agent :> 100),
      ("@u1" :> 100) @@ (Agent :> 100),
      ("@u1" :> 0) @@ ("@u2" :> 50) @@ (Agent :> 100),
      ("@u3" :> 100) @@ (moderatorUserId :> 0) @@ (Agent :> 50) }

InitPermissions ==
    /\ desired = IdleDesired
    /\ InitCreate
    /\ resolveCall = IdleResolve
    /\ InitConstruct
    /\ InitHandler
    /\ InitEnsure
    /\ InitPerm
    /\ VenueCatalog(EmptyMap)
    /\ aliasTarget = [a \in Aliases |-> NoRoom]
    /\ storedSubspaceState = [r \in Rooms |-> EmptyMap]
    /\ storedPersonState = [r \in Rooms |-> EmptyMap]
    /\ createEvent = [r \in Rooms |-> VenueCreateEvent(r, Agent)]
    /\ thirdPartyInvites = [r \in Rooms |-> EmptyMap]
    /\ dbRecords = BackendRecords /\ delivered = 0
    /\ membership = [r \in Rooms |-> [u \in InviteUserIds |-> "leave"]]
    /\ \E users \in UsersOptions : powerLevels = [r \in Rooms |-> users]

NextPermissions ==
    \/ \E r \in InviteRooms, targets \in ModeratorLists :
          ensurePermissionsFor(targets, r) /\ UNCHANGED <<desired, createVars, resolveCall>>
    \/ PowerLevelsReturned /\ UNCHANGED <<desired, createVars, resolveCall>>
    \/ PowerLevelsFailed /\ UNCHANGED <<desired, createVars, resolveCall>>
    \/ PowerLevelsSent /\ UNCHANGED <<desired, createVars, resolveCall>>
    \/ PowerLevelsNotSent /\ UNCHANGED <<desired, createVars, resolveCall>>
    \/ PermEnded /\ UNCHANGED <<desired, createVars, resolveCall>>
    \/ \E level \in {0, 100} : PowerLevelsChanged("@u1", level) /\ UNCHANGED <<desired, createVars, resolveCall>>

SpecPermissions == InitPermissions /\ [][NextPermissions]_vars

(***************************************************************************)
(* A room event handled while construct() rebuilds the catalog of the      *)
(* venue.                                                                  *)
(***************************************************************************)

NextRedeem ==
    \/ Construct /\ UNCHANGED <<handlerVars, inviteVars, permVars, desired, createVars, resolveCall>>
    \/ JoinedRoomsReturned(JoinedRooms) /\ UNCHANGED <<handlerVars, inviteVars, permVars, desired, createVars, resolveCall>>
    \/ \E t \in tasks : TaskReturned(t) /\ UNCHANGED <<handlerVars, inviteVars, permVars, desired, createVars, resolveCall>>
    \/ ResolveReturned /\ UNCHANGED <<handlerVars, inviteVars, permVars, desired, createVars, resolveCall>>
    \/ RoomStateReturned /\ UNCHANGED <<handlerVars, inviteVars, permVars, desired, createVars, resolveCall>>
    \/ \E r \in Rooms, e \in Events :
          EventDelivered("h1", r, e) /\ UNCHANGED <<inviteVars, permVars, desired, createVars, resolveCall>>
    \/ InviteReturned("h1") /\ UNCHANGED <<inviteVars, permVars, desired, createVars, resolveCall>>
    \/ StateReturned("h1") /\ UNCHANGED <<inviteVars, permVars, desired, createVars, resolveCall>>
    \/ PeopleReturned("h1") /\ UNCHANGED <<inviteVars, permVars, desired, createVars, resolveCall>>
    \/ StateEventStored("h1") /\ UNCHANGED <<inviteVars, permVars, desired, createVars, resolveCall>>
    \/ StateEventSent("h1") /\ UNCHANGED <<inviteVars, permVars, desired, createVars, resolveCall>>
    \/ ModeratorsReturned("h1")
    \/ ModeratorsEnsured("h1")

SpecRedeem == InitVerifier /\ [][NextRedeem]_vars

(***************************************************************************)
(* Two overlapping ensurePermissionsFor calls on one room.                 *)
(***************************************************************************)

NextOverlap ==
    \/ \E r \in InviteRooms, targets \in ModeratorLists :
          ensurePermissionsFor(targets, r) /\ UNCHANGED <<desired, createVars, resolveCall>>
    \/ PowerLevelsReturned /\ UNCHANGED <<desired, createVars, resolveCall>>
    \/ PowerLevelsSent /\ UNCHANGED <<desired, createVars, resolveCall>>
    \/ \E targets \in ModeratorLists :
          ensurePermissionsForOverlapping(targets) /\ UNCHANGED <<desired, createVars, resolveCall>>
    \/ OverlappingPowerLevelsReturned /\ UNCHANGED <<desired, createVars, resolveCall>>
    \/ OverlappingPowerLevelsSent /\ UNCHANGED <<desired, createVars, resolveCall>>

SpecOverlap == InitPermissions /\ [][NextOverlap]_vars

(***************************************************************************)
(* Auditoriums and backstages created on the venue.                        *)
(***************************************************************************)

NextCreate ==
    \/ \E c \in Creators, id \in AuditoriumIds : createAuditorium(c, id)
    \/ \E c \in Creators, id \in AuditoriumIds : createAuditoriumBackstage(c, id)
    \/ \E c \in Creators : SpaceCreated(c)
    \/ \E c \in Creators : RoomCreated(c)
    \/ \E c \in Creators : AliasesAssigned(c)
    \/ \E c \in Creators : ChildRoomAdded(c)
    \/ \E c \in Creators : BackstageAdded(c)
    \/ \E c \in Creators : CreateFailed(c)

SpecCreate == InitPermissions /\ [][NextCreate]_vars

(***************************************************************************)
(* People resolved against the person cache.                               *)
(***************************************************************************)

\* The platform identities a backend record or a cache entry may carry.
Identities == InviteUserIds \cup {NoId}

\* The person caches: any of the persons cached with any identity.
PeopleCaches ==
    UNION { [ps -> Identities] : ps \in SUBSET {"p1", "p3"} }

\* The backend's tables: the records of BackendRecords with any identity.
BackendTables ==
    { ("p1" :> << [IDbPerson("p1", "speaker") EXCEPT !.matrix_id = m1],
                  [IDbPerson("p1", "coordinator") EXCEPT !.matrix_id = m1] >>)
      @@ ("p3" :> << [IDbPerson("p3", "host") EXCEPT !.matrix_id = m3] >>)
      : m1 \in Identities, m3 \in {NoId, "@u3"} }

InitResolve ==
    /\ desired = IdleDesired
    /\ InitCreate
    /\ resolveCall = IdleResolve
    /\ InitConstruct
    /\ InitHandler
    /\ InitEnsure
    /\ InitPerm
    /\ \E cache \in PeopleCaches : VenueCatalog(cache)
    /\ aliasTarget = [a \in Aliases |-> NoRoom]
    /\ storedSubspaceState = [r \in Rooms |-> EmptyMap]
    /\ storedPersonState = [r \in Rooms |-> EmptyMap]
    /\ createEvent = [r \in Rooms |-> VenueCreateEvent(r, Agent)]
    /\ thirdPartyInvites = [r \in Rooms |-> EmptyMap]
    /\ \E table \in BackendTables : dbRecords = table
    /\ delivered = 0
    /\ membership = [r \in Rooms |-> [u \in InviteUserIds |-> "leave"]]
    /\ powerLevels = [r \in Rooms |-> (Agent :> 100)]

NextResolve ==
    \/ \E a \in AuditoriumIds : getPeopleForAuditorium(a)
    \/ \E t \in {"T1", "T2"} : getPeopleForTalk(t)

SpecResolve == InitResolve /\ [][NextResolve]_vars

(***************************************************************************)
(* getDesiredParentSpace on a conference with a root room.                 *)
(***************************************************************************)

\* The characters of the IDs.
Characters == {"A", "B", ".", "1"}

\* The auditorium and interest room IDs.
Ids == UNION { [1..n -> Characters] : n \in 0..MaxIdLen }

\* The subspace index: the subspaces created so far.
SubspaceIndexes ==
    { EmptyMap, ("S1" :> "!space1"), ("S2" :> "!space2"),
      ("S1" :> "!space1") @@ ("S2" :> "!space2") }

InitParentSpace ==
    /\ InitConstruct
    /\ InitHandler
    /\ InitEnsure
    /\ InitPerm
    /\ desired = IdleDesired
    /\ InitCreate
    /\ resolveCall = IdleResolve
    /\ dbRoom = 1
    /\ subspaces \in SubspaceIndexes
    /\ auditoriums = ("A1" :> 2)
    /\ auditoriumBackstages = EmptyMap
    /\ talks = ("T1" :> 3)
    /\ interestRooms = EmptyMap
    /\ people = EmptyMap
    /\ aliasTarget = [a \in Aliases |-> NoRoom]
    /\ storedSubspaceState = [r \in Rooms |-> EmptyMap]
    /\ storedPersonState = [r \in Rooms |-> EmptyMap]
    /\ createEvent = [r \in Rooms |-> VenueCreateEvent(r, Agent)]
    /\ thirdPartyInvites = [r \in Rooms |-> EmptyMap]
    /\ dbRecords = BackendRecords /\ delivered = 0
    /\ membership = [r \in Rooms |-> [u \in InviteUserIds |-> "leave"]]
    /\ powerLevels = [r \in Rooms |-> (Agent :> 100)]

NextParentSpace ==
    \/ \E id \in Ids : getDesiredParentSpace(id)
    \/ TopSpaceReturned
    \/ TopSpaceFailed
    \/ DesiredEnded

SpecParentSpace == InitParentSpace /\ [][NextParentSpace]_vars

(***************************************************************************)
(* Properties of the room.event handler.                                   *)
(***************************************************************************)

\* Every condition of the authenticity chain holds of an event in a room: it
\* is a membership event with a third-party-invite token, the room holds the
\* invite record of that token with a person ID, the room's create event and
\* that invite record were sent by the agent, and the backend knows the person.
GenuineRedemption(roomId, event) ==
    /\ event.type = "m.room.member"
    /\ event.third_party_invite
    /\ event.token # NoId
    /\ event.token \in DOMAIN thirdPartyInvites[roomId]
    /\ thirdPartyInvites[roomId][event.token].personId # NoId
    /\ createEvent[roomId].sender = Agent
    /\ thirdPartyInvites[roomId][event.token].sender = Agent
    /\ Len(findPeopleWithId(thirdPartyInvites[roomId][event.token].personId)) > 0

\* The run has made the call op.
Called(run, op) == \E n \in DOMAIN run.log : run.log[n].op = op

C2_MatrixIdMonotonic ==
    [][ /\ \A p \in DOMAIN people :
              people[p] # NoId => (p \in DOMAIN people' /\ people'[p] = people[p])
        /\ \A r \in Rooms : \A p \in DOMAIN storedPersonState[r] :
              storedPersonState[r][p] # NoId
              => (p \in DOMAIN storedPersonState'[r]
                    /\ storedPersonState'[r][p] = storedPersonState[r][p]) ]_vars

\* C3: in every run, the backend lookup, every createUpdatePerson call and the
\* permission update come after the full room state was re-read and, on it,
\* first the create event's sender and then the invite record's sender were
\* found to be the agent.
C3_ChecksBeforeEffects ==
    \A h \in Handlers :
        LET log == handler[h].log IN
        \A n \in DOMAIN log :
            log[n].op \in {"findPeopleWithId", "createUpdatePerson", "ensureModerator"}
            => \E a, b, c \in 1..(n - 1) :
                 /\ a < b /\ b < c
                 /\ log[a].op = "getRoomState"
                 /\ log[b].op = "createSender" /\ log[b].sender = Agent
                 /\ log[c].op = "inviteSender" /\ log[c].sender = Agent
                 /\ log[b].sender = createEvent[handler[h].roomId].sender
                 /\ log[c].sender =
                      thirdPartyInvites[handler[h].roomId][handler[h].event.token].sender

C3_Witness ==
    \E h \in Handlers :
        /\ handler[h].pc = "applied"
        /\ handler[h].roomId = 2
        /\ Called(handler[h], "findPeopleWithId")
        /\ Called(handler[h], "createUpdatePerson")
        /\ Called(handler[h], "ensureModerator")

(***************************************************************************)
(* Properties of ensureInvited.                                            *)
(***************************************************************************)

\* C9: every operation a call of ensureInvited issues is an invite, none is
\* issued for an identity that was joined when the call was made, everyone
\* who was joined then is joined still, and a membership differs from what it
\* was then only for a user who had left or was invited, and is invited or
\* joined now.
C9_EnsureInvitedNeverRevokes ==
    ensure.pc # "idle" =>
        /\ \A n \in DOMAIN ensure.issued :
              /\ ensure.issued[n].op = "invite"
              /\ ensure.issued[n].target.mxid # NoId
                 => ensure.before[ensure.issued[n].target.mxid] # "join"
        /\ \A u \in InviteUserIds :
              /\ ensure.before[u] = "join" => membership[ensure.roomId][u] = "join"
              /\ membership[ensure.roomId][u] # ensure.before[u]
                 => /\ ensure.before[u] \in {"leave", "invite"}
                    /\ membership[ensure.roomId][u] \in {"invite", "join"}

\* Members @u1 and @u2, targets @u1 and @u3: the call is over, @u1 and @u2
\* are members as before and the one invite issued went to @u3.
C9_Witness ==
    /\ ensure.pc = "done"
    /\ ensure.before = [u \in InviteUserIds |-> IF u = "@u3" THEN "leave" ELSE "join"]
    /\ ensure.people = << ResolvedPersonIdentifier("p1", "@u1", FALSE),
                          ResolvedPersonIdentifier("p3", "@u3", FALSE) >>
    /\ membership[ensure.roomId] =
         [u \in InviteUserIds |-> IF u = "@u3" THEN "invite" ELSE "join"]
    /\ ensure.issued =
         << [op |-> "invite", target |-> ResolvedPersonIdentifier("p3", "@u3", FALSE)] >>

\* C10: no invite is issued for a target whose person ID is the person-ID
\* payload of a third-party invite record of the room state the call read,
\* with or without a platform identity.
C10_NoInviteWhilePendingEmailInvite ==
    \A n \in DOMAIN ensure.issued :
        \A token \in DOMAIN ensure.state :
            ensure.state[token].personId # ensure.issued[n].target.person.person_id

\* A target who has a platform identity, is not joined and has a pending
\* third-party invite was passed over by a call that invited somebody else.
C10_Witness ==
    /\ ensure.pc = "done"
    /\ ensure.issued # << >>
    /\ \E k \in DOMAIN ensure.people :
         /\ ensure.people[k].mxid # NoId
         /\ ensure.before[ensure.people[k].mxid] \in {"leave", "invite"}
         /\ membership[ensure.roomId][ensure.people[k].mxid] = ensure.before[ensure.people[k].mxid]
         /\ \E token \in DOMAIN ensure.state :
              ensure.state[token].personId = ensure.people[k].person.person_id
         /\ \A n \in DOMAIN ensure.issued : ensure.issued[n].target # ensure.people[k]

\* The targets of the call that the loop has gone through.
Examined ==
    CASE ensure.pc = "done" -> Len(ensure.people)
      [] ensure.pc = "invitePersonToRoom" -> ensure.idx
      [] OTHER -> 0

\* The target's platform identity is a joined member of the room state the
\* call read.
JoinedWhenRead(target) == target.mxid # NoId /\ ensure.members[target.mxid] = "join"

\* A third-party invite record of the room state the call read carries the
\* target's person ID.
PendingWhenRead(target) ==
    \E token \in DOMAIN ensure.state :
        ensure.state[token].personId = target.person.person_id

Eligible(target) == ~JoinedWhenRead(target) /\ ~PendingWhenRead(target)

C12_InviteFailureDoesNotAbort ==
    ensure.failed # {} =>
        /\ ensure.pc \in {"invitePersonToRoom", "done"}
        /\ \A k \in ensure.failed : k < ensure.idx
        /\ ensure.pc = "done" =>
             /\ ensure.idx = Len(ensure.people) + 1
             /\ \A k \in DOMAIN ensure.people :
                  Eligible(ensure.people[k])
                  => \E n \in DOMAIN ensure.issued :
                       ensure.issued[n].target = ensure.people[k]

\* The invite of the first target failed; the second target was invited all
\* the same, and the call returned.
C12_Witness ==
    /\ ensure.pc = "done"
    /\ ensure.failed = {1}
    /\ Len(ensure.people) = 2
    /\ ensure.people[2].mxid # NoId
    /\ ensure.before[ensure.people[2].mxid] = "leave"
    /\ membership[ensure.roomId][ensure.people[2].mxid] = "invite"
    /\ Len(ensure.issued) = 2

\* C13: a call on the room and targets of the call before it, which returned
\* with no invite failed and after which no membership of the room changed,
\* issues no invite for a person the call before invited.
C13_SecondRunInvitesNobodyAgain ==
    ( /\ ensure.pc # "idle"
      /\ lastCall.returned
      /\ lastCall.failed = {}
      /\ lastCall.roomId = ensure.roomId
      /\ lastCall.people = ensure.people
      /\ lastCall.after = ensure.before )
    => \A n \in DOMAIN ensure.issued : \A m \in DOMAIN lastCall.issued :
          ensure.issued[n].target.person.person_id
            # lastCall.issued[m].target.person.person_id

(***************************************************************************)
(* Properties of ensurePermissionsFor.                                     *)
(***************************************************************************)

\* C14: after a call that returned, with no other writer meanwhile, every
\* user other than the agent and the configured moderator who had an entry
\* in the users map when the call was made, at any level, has the same level.
C14_ExistingLevelsKept ==
    (perm.pc = "done" /\ ~perm.disturbed) =>
        \A u \in DOMAIN perm.before \ {Agent, moderatorUserId} :
            /\ u \in DOMAIN powerLevels[perm.roomId]
            /\ powerLevels[perm.roomId][u] = perm.before[u]

\* C15: the record a call writes, and the room's record once the call has
\* returned, map the agent and the configured moderator to 100.
C15_AgentAndModeratorPinned ==
    /\ perm.pc \in {"sendStateEvent", "done"} =>
         /\ {Agent, moderatorUserId} \subseteq DOMAIN perm.pls
         /\ perm.pls[Agent] = 100
         /\ perm.pls[moderatorUserId] = 100
    /\ perm.pc = "done" => powerLevels[perm.roomId] = perm.pls

\* The agent was at 50 and the configured moderator at 0, neither a target;
\* the call returned and both are at 100.
C15_Witness ==
    /\ perm.pc = "done"
    /\ perm.before = ("@u3" :> 100) @@ (moderatorUserId :> 0) @@ (Agent :> 50)
    /\ \A k \in DOMAIN perm.people : perm.people[k].mxid \notin {Agent, moderatorUserId}
    /\ powerLevels[perm.roomId][Agent] = 100
    /\ powerLevels[perm.roomId][moderatorUserId] = 100

\* C16: a call on the room and targets of the call before it, which returned,
\* with no other write in between or meanwhile, leaves the record as the call
\* before left it.
C16_EnsurePermissionsIdempotent ==
    ( /\ perm.pc = "done"
      /\ ~perm.disturbed
      /\ lastPerm.returned
      /\ lastPerm.roomId = perm.roomId
      /\ lastPerm.people = perm.people
      /\ lastPerm.after = perm.before )
    => powerLevels[perm.roomId] = lastPerm.after

\* The second of two calls with the same targets on a room returned; the
\* first one had granted a target the level 50.
C16_Witness ==
    /\ perm.pc = "done"
    /\ ~perm.disturbed
    /\ lastPerm.returned
    /\ lastPerm.roomId = perm.roomId
    /\ lastPerm.people = perm.people
    /\ lastPerm.after = perm.before
    /\ powerLevels[perm.roomId] \notin UsersOptions
    /\ \E k \in DOMAIN perm.people :
         /\ perm.people[k].mxid \in UserIds
         /\ powerLevels[perm.roomId][perm.people[k].mxid] = 50

(***************************************************************************)
(* Further properties of the room.event handler.                           *)
(***************************************************************************)

\* C17: a run for a membership event with third_party_invite content that
\* has no token, or whose token has no invite record in the room, or whose
\* record has no person ID, never throws: it is fetching the record or has
\* ended Rejected, and has made no call after that fetch.
C17_MissingRecordIsRejected ==
    \A h \in Handlers :
        LET run == handler[h]
            records == thirdPartyInvites[run.roomId]
        IN ( /\ run.pc # "idle"
             /\ run.event.type = "m.room.member"
             /\ run.event.third_party_invite
             /\ \/ run.event.token = NoId
                \/ run.event.token \notin DOMAIN records
                \/ records[run.event.token].personId = NoId )
           => /\ run.pc \in {"getRoomStateEvent", "rejected"}
              /\ run.log = << [op |-> "getRoomStateEvent"] >>

(***************************************************************************)
(* Properties of getDesiredParentSpace.                                    *)
(***************************************************************************)

\* The configured subspaces one of whose prefixes the ID starts with.
Matching(id) ==
    { k \in DOMAIN ConfiguredSubspaces :
        \E n \in DOMAIN ConfiguredSubspaces[k].prefixes :
            startsWith(id, ConfiguredSubspaces[k].prefixes[n]) }

\* The first of them in the order of the configuration.
FirstMatching(id) ==
    ConfiguredSubspaces[CHOOSE k \in Matching(id) : \A j \in Matching(id) : k <= j].subspaceId

\* C18: for an ID that starts with a configured prefix the call has returned
\* the subspace of the first matching configuration entry if the subspace
\* index has it, and has otherwise thrown an error naming that subspace,
\* without asking for the top-level space; for an ID that starts with no
\* configured prefix the call asks for the top-level space and returns it.
C18_DesiredParentSpace ==
    desired.pc # "idle" =>
        IF Matching(desired.id) # {}
        THEN LET subspaceId == FirstMatching(desired.id) IN
             IF subspaceId \in DOMAIN subspaces
             THEN desired.pc = "returned" /\ desired.result = subspaces[subspaceId]
             ELSE /\ desired.pc = "threw"
                  /\ desired.missing = subspaceId
                  /\ desired.result = NoId
        ELSE /\ desired.missing = NoId
             /\ desired.pc = "returned" => desired.result = TopLevelSpace
             /\ desired.pc # "returned" => desired.result = NoId

\* The ID "B." starts with a prefix of S1 and with one of S2; S1 was never
\* created, S2 was: the call threw, naming S1.
C18_Witness ==
    /\ desired.pc = "threw"
    /\ desired.id = << "B", "." >>
    /\ desired.missing = "S1"
    /\ DOMAIN subspaces = {"S2"}

(***************************************************************************)
(* Further properties of Conference.construct.                             *)
(***************************************************************************)

\* The creation-record reads the construct() call in progress has issued and
\* that have not settled.
ReadsInFlight == { t \in tasks : t[1] = runs }

\* The number of the batch a joined room belongs to.
BatchOf(roomId) ==
    ((CHOOSE j \in DOMAIN JoinedRooms : JoinedRooms[j] = roomId) - 1) \div batchSize

ClaimOf(r) ==
    LET ev == createEvent[r] IN
    CASE ev.kind = KindConference -> << ev.kind, NoId >>
      [] ev.kind = KindAuditorium -> << ev.kind, ev.auditoriumId >>
      [] ev.kind = KindAuditoriumBackstage -> << ev.kind, ev.auditoriumId >>
      [] ev.kind = KindTalk -> << ev.kind, ev.talkId >>
      [] ev.kind = KindSpecialInterest -> << ev.kind, ev.interestId >>
      [] OTHER -> << ev.kind, NoId >>

\* The rooms of this conference that claim the key.
Claimants(key) ==
    { r \in Rooms : createEvent[r].conf = ConferenceId /\ ClaimOf(r) = key }

\* No two rooms of one batch claim the same key.
NoDuplicateClaimsInBatch ==
    \A r1, r2 \in Rooms :
        (r1 # r2 /\ BatchOf(r1) = BatchOf(r2) /\ createEvent[r1].conf = ConferenceId
                 /\ createEvent[r1].kind # KindOther)
        => r2 \notin Claimants(ClaimOf(r1))

\* The bucket of a kind when the reads complete in the order of the joined
\* rooms: each claimed ID is mapped to the last room that claims it.
InListOrder(kind) ==
    LET ids == { ClaimOf(r)[2] : r \in { q \in Rooms : IsOfKind(q, kind) } }
    IN [id \in ids |->
          CHOOSE r \in Claimants(<< kind, id >>) :
              \A q \in Claimants(<< kind, id >>) : q <= r]

\* The catalog's room maps are those of a rebuild whose reads complete in the
\* order of the joined rooms; interest rooms the configuration names are
\* added for the IDs no room claims.
CatalogAsInListOrder ==
    /\ dbRoom = IF Claimants(<< KindConference, NoId >>) = {} THEN NoRoom
                ELSE InListOrder(KindConference)[NoId]
    /\ auditoriums = InListOrder(KindAuditorium)
    /\ auditoriumBackstages = InListOrder(KindAuditoriumBackstage)
    /\ talks = InListOrder(KindTalk)
    /\ \A id \in DOMAIN InListOrder(KindSpecialInterest) :
          id \in DOMAIN interestRooms
          /\ interestRooms[id] = InListOrder(KindSpecialInterest)[id]
    /\ \A id \in DOMAIN interestRooms \ DOMAIN InListOrder(KindSpecialInterest) :
          \E j \in 1..Len(ExistingInterestRooms) :
              /\ ExistingInterestRooms[j][1] = id
              /\ aliasTarget[ExistingInterestRooms[j][2]] = interestRooms[id]

CatalogEntries ==
    (IF dbRoom = NoRoom THEN {} ELSE { << KindConference, NoId, dbRoom >> })
    \cup { << KindAuditorium, a, auditoriums[a] >> : a \in DOMAIN auditoriums }
    \cup { << KindAuditoriumBackstage, a, auditoriumBackstages[a] >> :
             a \in DOMAIN auditoriumBackstages }
    \cup { << KindTalk, t, talks[t] >> : t \in DOMAIN talks }
    \cup { << KindSpecialInterest, i, interestRooms[i] >> : i \in DOMAIN interestRooms }

\* The keys two or more joined rooms of this conference claim.
DuplicateKeys ==
    { ClaimOf(r) : r \in { q \in Rooms : createEvent[q].conf = ConferenceId
                                         /\ createEvent[q].kind # KindOther
                                         /\ Cardinality(Claimants(ClaimOf(q))) > 1 } }

\* C21: the completed read of a room that claims a key puts that room under
\* the key, replacing whatever was there, and changes no other entry; when
\* construct() has returned, a key claimed by several rooms holds one entity,
\* backed by one of the claimants.
C21_LastWriteWins ==
    [][ /\ \A t \in tasks \ tasks' :
              (faulted' = faulted /\ createEvent[t[2]].conf = ConferenceId
                 /\ createEvent[t[2]].kind # KindOther)
              => LET key == ClaimOf(t[2]) IN
                 CatalogEntries' =
                     { e \in CatalogEntries : << e[1], e[2] >> # key }
                     \cup { << key[1], key[2], t[2] >> }
        /\ cpc' = "done"
           => \A key \in DuplicateKeys :
                 \E r \in Claimants(key) :
                     { e \in CatalogEntries' : << e[1], e[2] >> = key }
                        = { << key[1], key[2], r >> } ]_vars

\* construct() has returned on rooms 1 and 2 both claiming talk T1, with the
\* talk backed by room 1, whose read completed last, and the entity of room 3
\* in place.
C21_Witness ==
    /\ cpc = "done"
    /\ Claimants(<< KindTalk, "T1" >>) = {1, 2}
    /\ talks = ("T1" :> 1)
    /\ createEvent[3].conf = ConferenceId
    /\ createEvent[3].kind = KindAuditorium
    /\ auditoriums = ("A1" :> 3)

\* construct() is past the loop over the configured interest rooms.
PastExistingInterestRooms ==
    \/ cpc \in {"done", "getRoomState", "getSpace"}
    \/ cpc = "failed" /\ failCause = "getRoomState"

\* C22: the alias of a configured interest room is resolved only after the
\* reads of all batches have completed and only for an ID the catalog does
\* not hold; past the loop, an ID that classification discovered is backed by
\* a room that claims it, any other configured ID is backed by the room its
\* alias resolves to, and is absent when the alias does not resolve.
C22_ExistingInterestRoomsResolved ==
    [][ /\ (cpc' = "resolveRoom" /\ (cpc # "resolveRoom" \/ interestIdx' # interestIdx))
           => /\ ExistingInterestRooms[interestIdx'][1] \notin DOMAIN interestRooms'
              /\ { t \in tasks' : t[1] = runs' } = {}
        /\ PastExistingInterestRooms'
           => \A j \in 1..Len(ExistingInterestRooms) :
                 LET id == ExistingInterestRooms[j][1]
                     roomId == aliasTarget[ExistingInterestRooms[j][2]]
                 IN IF Claimants(<< KindSpecialInterest, id >>) # {}
                    THEN /\ id \in DOMAIN interestRooms'
                         /\ interestRooms'[id] \in Claimants(<< KindSpecialInterest, id >>)
                    ELSE IF roomId # NoRoom
                    THEN /\ id \in DOMAIN interestRooms'
                         /\ interestRooms'[id] = roomId
                    ELSE id \notin DOMAIN interestRooms' ]_vars

\* construct() has returned: I1 was discovered on room 3 and kept although its
\* alias resolves to room 1.
C22_DiscoveredKept ==
    /\ cpc = "done"
    /\ aliasTarget["#i1"] = 1
    /\ aliasTarget["#i2"] = NoRoom
    /\ Claimants(<< KindSpecialInterest, "I1" >>) = {3}
    /\ interestRooms = ("I1" :> 3)

\* construct() has returned: the alias of I1 did not resolve, and I2, which
\* comes after it, is backed by the room its alias resolves to.
C22_Witness ==
    /\ cpc = "done"
    /\ aliasTarget["#i1"] = NoRoom
    /\ Claimants(<< KindSpecialInterest, "I1" >>) = {}
    /\ interestRooms = ("I2" :> 2)

\* C23: among joined rooms none of which is the root room of this conference,
\* construct() never reads a room's full state, and when it has returned the
\* person cache and the subspace index are empty and isCreated is false.
C23_NoRootNoHydration ==
    Claimants(<< KindConference, NoId >>) = {}
    => /\ cpc \notin {"getRoomState", "getSpace"}
       /\ rootRead = NoRoom
       /\ cpc = "done" => (~isCreated /\ people = EmptyMap /\ subspaces = EmptyMap)

\* construct() has returned without a root room, with an auditorium and a
\* talk cataloged, among rooms whose state holds stored people and subspaces.
C23_Witness ==
    /\ cpc = "done"
    /\ Claimants(<< KindConference, NoId >>) = {}
    /\ ~isCreated
    /\ auditoriums # EmptyMap
    /\ talks # EmptyMap
    /\ \A r \in Rooms : storedPersonState[r] # EmptyMap /\ storedSubspaceState[r] # EmptyMap

\* The keys the joined rooms of this conference claim.
ClaimedKeys ==
    { ClaimOf(r) : r \in { q \in Rooms : createEvent[q].conf = ConferenceId
                                         /\ createEvent[q].kind # KindOther } }

\* C24: when the read of the root room's state throws, construct() ends with
\* the entity maps as they were before the read, every claimed key backed by
\* a room that claims it, and the person cache and subspace index empty.
C24_RootReadFailureKeepsEntities ==
    [][ (cpc = "getRoomState" /\ cpc' = "failed")
        => /\ failCause' = "getRoomState"
           /\ CatalogEntries' = CatalogEntries
           /\ isCreated'
           /\ \A key \in ClaimedKeys :
                 \E r \in Claimants(key) : << key[1], key[2], r >> \in CatalogEntries'
           /\ people' = EmptyMap
           /\ subspaces' = EmptyMap ]_vars

\* construct() has thrown on the read of the root room's state, whose stored
\* people and subspaces were not loaded, with the root room, an auditorium and
\* a talk in the catalog.
C24_Witness ==
    /\ cpc = "failed"
    /\ failCause = "getRoomState"
    /\ dbRoom = 1
    /\ storedPersonState[1] # EmptyMap
    /\ storedSubspaceState[1] # EmptyMap
    /\ people = EmptyMap
    /\ subspaces = EmptyMap
    /\ auditoriums = ("A1" :> 2)
    /\ talks = ("T1" :> 3)

\* The rooms of the list getJoinedRooms returned to the current call.
Listed == { roomIds[j] : j \in DOMAIN roomIds }

\* The entity is backed by a listed room whose creation record claims the
\* entity's key, or is a configured interest room backed by the room its
\* alias resolves to.
InScope(entity) ==
    \/ /\ entity[3] \in Listed
       /\ createEvent[entity[3]].conf = ConferenceId
       /\ ClaimOf(entity[3]) = << entity[1], entity[2] >>
    \/ /\ entity[1] = KindSpecialInterest
       /\ \E j \in 1..Len(ExistingInterestRooms) :
             /\ ExistingInterestRooms[j][1] = entity[2]
             /\ aliasTarget[ExistingInterestRooms[j][2]] = entity[3]

\* The keys of all maps of the catalog.
CatalogKeys ==
    { << e[1], e[2] >> : e \in CatalogEntries }
    \cup { << "person", p >> : p \in DOMAIN people }
    \cup { << "subspace", s >> : s \in DOMAIN subspaces }

\* C25: when construct() has returned, every entity of the catalog is backed
\* by a room that was joined when the call listed the joined rooms and whose
\* creation record claims the entity's key, or is a configured interest room.
C25_OnlyRoomsInScope ==
    cpc = "done" => \A entity \in CatalogEntries : InScope(entity)

\* C25, with no construct() call having thrown before.
C25_OnlyRoomsInScopeUnlessFailed ==
    (cpc = "done" /\ ~faulted) => \A entity \in CatalogEntries : InScope(entity)

\* C25, removal: a key leaves the catalog only on the step that enters
\* construct(), by its reset.
C25_OnlyResetRemoves ==
    [][ CatalogKeys \ CatalogKeys' # {} => (runs' = runs + 1 /\ cpc' = "getJoinedRooms") ]_vars

\* A second construct() has returned with the talk that the first one had
\* cataloged on room 3 dropped, room 3 having left the joined rooms.
C25_Dropped ==
    /\ cpc = "done"
    /\ ~faulted
    /\ runs = 2
    /\ 3 \notin Listed
    /\ prevDone # NoCatalog
    /\ prevDone[5] = ("T1" :> 3)
    /\ talks = EmptyMap
    /\ auditoriums # EmptyMap

(***************************************************************************)
(* Properties of an applied redemption.                                    *)
(***************************************************************************)

\* The positions of the run's log at which the call op was made.
CallsOf(run, op) == { n \in DOMAIN run.log : run.log[n].op = op }

\* The rooms that back an entity of the map.
RoomsOf(map) == { map[k] : k \in DOMAIN map }

\* The logical ID under which the map holds the room.
IdIn(map, roomId) == CHOOSE k \in DOMAIN map : map[k] = roomId

\* The moderators the handler is to use for the room: those of the auditorium
\* when the room backs an auditorium, else those of the auditorium when it
\* backs a backstage, else those of the talk when it backs a talk.
ModeratorsOfFirstMatch(roomId) ==
    IF roomId \in RoomsOf(auditoriums)
    THEN getModeratorsForAuditorium(IdIn(auditoriums, roomId))
    ELSE IF roomId \in RoomsOf(auditoriumBackstages)
    THEN getModeratorsForAuditorium(IdIn(auditoriumBackstages, roomId))
    ELSE getModeratorsForTalk(IdIn(talks, roomId))

MatchesNoEntity(roomId) ==
    roomId \notin RoomsOf(auditoriums) \cup RoomsOf(auditoriumBackstages) \cup RoomsOf(talks)

C27_StoredThenCached ==
    [][ /\ \A r \in Rooms :
              storedPersonState'[r] # storedPersonState[r]
              => \E h \in Handlers :
                    /\ handler[h].pc = "sendStateEvent"
                    /\ ~handler[h].stored
                    /\ handler'[h].stored
                    /\ r = handler[h].root
                    /\ r = dbRoom
                    /\ storedPersonState'[r] =
                         Put(storedPersonState[r], handler[h].personId,
                             handler[h].event.state_key)
                    /\ people' = people
        /\ people' # people
           => \E h \in Handlers :
                 /\ handler[h].pc = "sendStateEvent"
                 /\ handler[h].stored
                 /\ handler[h].personId \in DOMAIN storedPersonState[handler[h].root]
                 /\ people' = Put(people, handler[h].personId, handler[h].event.state_key)
        /\ \A h \in Handlers :
              LET run == handler'[h]
                  records == Len(findPeopleWithId(run.personId))
              IN /\ \A n \in CallsOf(run, "getModerators") :
                       /\ Cardinality({ m \in CallsOf(run, "createUpdatePerson") : m < n })
                            = records
                       /\ \A m \in CallsOf(run, "createUpdatePerson") : m < n
                 /\ run.pc = "applied"
                    => Cardinality(CallsOf(run, "createUpdatePerson")) = records
        /\ dbRecords' = dbRecords ]_vars

\* A run for a redemption by @u1 in the auditorium's room has written and
\* cached both of the backend's records of p1 and is asking for the
\* moderators.
C27_Witness ==
    \E h \in Handlers :
        /\ handler[h].pc = "getModerators"
        /\ handler[h].roomId = 2
        /\ handler[h].event.state_key = "@u1"
        /\ Cardinality(CallsOf(handler[h], "createUpdatePerson")) = 2
        /\ storedPersonState[dbRoom] = ("p1" :> "@u1")
        /\ people = ("p1" :> "@u1")
        /\ delivered = 1

\* The calls a run makes while it checks the authenticity chain.
CheckingOps ==
    {"getRoomStateEvent", "getRoomState", "createSender", "inviteSender", "findPeopleWithId"}

\* C28: a run that has ended Rejected, or has thrown on the fetch of the
\* invite record, has made no call but those of the checks and has written
\* nothing; and every step by which a run enters or goes through the checks,
\* or ends there, leaves the person cache, every room's stored-person records
\* and every room's power levels as they are.
C28_RejectedChangesNothing ==
    [][ \A h \in Handlers :
          LET run == handler'[h] IN
          /\ (run.pc = "rejected" \/ (run.pc = "threw" /\ ~Called(run, "createUpdatePerson")))
             => /\ \A n \in DOMAIN run.log : run.log[n].op \in CheckingOps
                /\ ~run.stored
          /\ (run # handler[h]
                /\ run.pc \in {"getRoomStateEvent", "getRoomState", "findPeopleWithId",
                               "rejected"})
             => /\ people' = people
                /\ storedPersonState' = storedPersonState
                /\ powerLevels' = powerLevels ]_vars

\* A redemption for a person the backend does not know has ended Rejected
\* after the backend lookup, next to a stored and cached person.
C28_Witness ==
    \E h \in Handlers :
        /\ handler[h].pc = "rejected"
        /\ Called(handler[h], "findPeopleWithId")
        /\ handler[h].personId = "p2"
        /\ delivered = 1
        /\ people = ("p1" :> "@u1")
        /\ storedPersonState[1] = ("p1" :> "@u1")
        /\ \A r \in Rooms : powerLevels[r] = (Agent :> 100)


(***************************************************************************)
(* The grants of ensurePermissionsFor.                                     *)
(***************************************************************************)

\* The platform identities of the targets of the call.
TargetIds == { perm.people[k].mxid : k \in DOMAIN perm.people } \ {NoId}

\* C29: after a call that returned, with no other writer meanwhile, every
\* target with a platform identity and no entry in the users map the call
\* works on (the record of the room with the agent and the configured
\* moderator set) is at level 50, a target without a platform identity has
\* added no entry, and the call has sent the merged record in one state
\* update; a call that has not returned has sent none.
C29_TargetsGranted ==
    /\ perm.updates = (IF perm.pc = "done" THEN 1 ELSE 0)
    /\ perm.pc = "done" => powerLevels[perm.roomId] = perm.pls
    /\ (perm.pc = "done" /\ ~perm.disturbed) =>
          LET users == Pinned(perm.before)
              after == powerLevels[perm.roomId]
          IN  /\ \A u \in TargetIds \ DOMAIN users :
                    u \in DOMAIN after /\ after[u] = 50
              /\ DOMAIN after = DOMAIN users \cup TargetIds
              /\ NoId \notin DOMAIN after

\* A call with a target without a platform identity and, twice, a target
\* with one and no entry returned: one update, that target at 50, no entry
\* for the other.
C29_Witness ==
    /\ perm.pc = "done"
    /\ ~perm.disturbed
    /\ perm.updates = 1
    /\ perm.before = (Agent :> 100)
    /\ \E k \in DOMAIN perm.people : perm.people[k].mxid = NoId
    /\ powerLevels[perm.roomId] =
          ("@u2" :> 50) @@ (moderatorUserId :> 100) @@ (Agent :> 100)

(***************************************************************************)
(* Overlapping runs of the handler on one person.                          *)
(***************************************************************************)

\* C30: once two runs for the same person ID have both finished Applied, no
\* call of either having failed, the platform identity the person cache holds
\* for that person is the one of the root room's stored-person record.
C30_CacheMatchesStoredRecord ==
    ( /\ isCreated
      /\ \A h \in Handlers :
            handler[h].pc = "applied" /\ Called(handler[h], "createUpdatePerson")
      /\ handler["h1"].personId = handler["h2"].personId
      /\ handler["h1"].personId \in DOMAIN people )
    => LET p == handler["h1"].personId
       IN  /\ p \in DOMAIN storedPersonState[dbRoom]
           /\ people[p] = storedPersonState[dbRoom][p]

\* Two runs for one person with different platform identities overlapped
\* and both ended Applied.
C30_BothApplied ==
    /\ handler["h1"].pc = "applied"
    /\ handler["h2"].pc = "applied"
    /\ handler["h1"].personId = handler["h2"].personId
    /\ handler["h1"].event.state_key # handler["h2"].event.state_key

(***************************************************************************)
(* Overlapping calls of ensurePermissionsFor.                              *)
(***************************************************************************)

\* The users a call granted a level: those of its copy that the record it
\* read did not hold.
Granted(call) == DOMAIN call.pls \ DOMAIN call.before

\* C31: once two overlapping calls on a room have both returned, the room's
\* record holds every user either call granted a level, at that level, and
\* every user it held when the first call was made.
C31_NoGrantLost ==
    (perm.pc = "done" /\ overlap.pc = "done")
    => LET final == powerLevels[perm.roomId] IN
       /\ \A u \in Granted(perm) : u \in DOMAIN final /\ final[u] = perm.pls[u]
       /\ \A u \in Granted(overlap) : u \in DOMAIN final /\ final[u] = overlap.pls[u]
       /\ DOMAIN perm.before \subseteq DOMAIN final

\* A write replaces the room's record by the writer's copy, whatever the
\* record holds by then.
C31_WriteReplaces ==
    [][ /\ (overlap.pc = "sendStateEvent" /\ overlap'.pc = "done")
           => powerLevels'[overlap.roomId] = overlap.pls
        /\ (perm.pc = "sendStateEvent" /\ perm'.pc = "done")
           => powerLevels'[perm.roomId] = perm.pls ]_vars

\* Both calls have returned and each granted a user the other did not.
C31_BothReturned ==
    /\ perm.pc = "done"
    /\ overlap.pc = "done"
    /\ Granted(perm) \ Granted(overlap) # {}
    /\ Granted(overlap) \ Granted(perm) # {}

(***************************************************************************)
(* Invites of one ensureInvited call.                                      *)
(***************************************************************************)

\* Two targets are the same person: the same person ID, or the same platform
\* identity.
SamePerson(a, b) ==
    \/ a.person.person_id = b.person.person_id
    \/ a.mxid # NoId /\ a.mxid = b.mxid

\* C32: the invites a call has issued so far are for different people, by
\* person ID and by platform identity.
C32_InvitedAtMostOnce ==
    \A n, m \in DOMAIN ensure.issued :
        n # m => ~SamePerson(ensure.issued[n].target, ensure.issued[m].target)

\* A call whose target list names no person twice issues at most one invite
\* per person.
C32_DistinctTargetsInvitedOnce ==
    (\A j, k \in DOMAIN ensure.people :
        j # k => ~SamePerson(ensure.people[j], ensure.people[k]))
    => C32_InvitedAtMostOnce

\* A call on a list with the same person twice has issued two invites.
C32_InvitedTwice ==
    /\ ensure.pc = "done"
    /\ Len(ensure.people) = 2
    /\ SamePerson(ensure.people[1], ensure.people[2])
    /\ Len(ensure.issued) = 2

(***************************************************************************)
(* A redemption handled during a rebuild.                                  *)
(***************************************************************************)

\* The run of h1 handled a redemption that passed every check, and is over.
RedeemedAndOver ==
    /\ handler["h1"].pc \in {"applied", "threw"}
    /\ Called(handler["h1"], "createUpdatePerson")

\* The root room's records and the person cache hold the identity the run
\* of h1 redeemed.
Correlated ==
    LET run == handler["h1"] IN
    /\ run.personId \in DOMAIN storedPersonState[1]
    /\ storedPersonState[1][run.personId] = run.event.state_key
    /\ run.personId \in DOMAIN people
    /\ people[run.personId] = run.event.state_key

\* C33: a redemption that passed every check and arrived while construct()
\* was in progress is, once the run and that construct() call are over, on
\* record in the root room and in the person cache.
C33_RedemptionSurvivesRebuild ==
    (RedeemedAndOver /\ handler["h1"].inRun = runs /\ cpc = "done") => Correlated

\* A redemption whose run found a root room in the catalog when it called
\* createUpdatePerson and ended Applied is on record and cached once no
\* construct() call is in progress.
C33_AppliedIsCorrelated ==
    (handler["h1"].pc = "applied" /\ Called(handler["h1"], "createUpdatePerson")
       /\ cpc \in {"idle", "done"})
    => Correlated

\* A redemption arrived during a rebuild that went on to return, and ended
\* Applied.
C33_AppliedDuringRebuild ==
    /\ handler["h1"].pc = "applied"
    /\ Called(handler["h1"], "createUpdatePerson")
    /\ handler["h1"].inRun = runs
    /\ runs > 0
    /\ cpc = "done"

(***************************************************************************)
(* Auditoriums and backstages: the room of a logical ID.                   *)
(***************************************************************************)

\* This step creates a room of the kind for the ID.
RoomCreatedFor(kind, id) ==
    /\ Len(createdRooms') = Len(createdRooms) + 1
    /\ createdRooms'[Len(createdRooms')] = [kind |-> kind, id |-> id]

\* The map keeps the ID on the room it has, and no room is created for it.
Immutable(map, mapNext, kind) ==
    \A id \in DOMAIN map :
        /\ id \in DOMAIN mapNext
        /\ mapNext[id] = map[id]
        /\ ~RoomCreatedFor(kind, id)

\* C34: once the catalog maps an auditorium or backstage ID to a room, no
\* step of a createAuditorium or createAuditoriumBackstage call, overlapping
\* calls included, creates a further room for the ID or maps the ID to
\* another room.
C34_RoomImmutable ==
    [][ /\ Immutable(auditoriums, auditoriums', KindAuditorium)
        /\ Immutable(auditoriumBackstages, auditoriumBackstages', KindAuditoriumBackstage)
      ]_vars

\* C34, calls that do not overlap: a call that finds its ID in the catalog
\* returns the room the catalog holds and creates nothing.
C34_MappedCallCreatesNothing ==
    [][ \A c \in Creators :
          (creating[c].pc \in {"idle", "addChildRoom"} /\ creating'[c] # creating[c]
              /\ creating'[c].found)
          => /\ createdRooms' = createdRooms
             /\ auditoriums' = auditoriums
             /\ auditoriumBackstages' = auditoriumBackstages
             /\ creating'[c].roomId =
                  (IF creating'[c].stage = KindAuditorium
                   THEN auditoriums[creating'[c].id]
                   ELSE auditoriumBackstages[creating'[c].id])
      ]_vars

\* C34: two calls for one backstage have both created a room, and the
\* catalog holds the second after it held the first.
C34_TwoRoomsForOneId ==
    \E i, j \in 1..Len(createdRooms) :
        /\ i < j
        /\ createdRooms[i] = createdRooms[j]
        /\ createdRooms[i].kind = KindAuditoriumBackstage
        /\ createdRooms[i].id \in DOMAIN auditoriumBackstages
        /\ auditoriumBackstages[createdRooms[i].id] = FreshRoomId(j)
        /\ \A c \in Creators : creating[c].pc = "done"

(***************************************************************************)
(* resolvePeople: the person cache as a join cache.                        *)
(***************************************************************************)

\* The identity the person cache holds for the person, NoId if none.
CachedIdentity(personId) ==
    IF personId \in DOMAIN people THEN people[personId] ELSE NoId

\* C35: resolvePeople returns, for every record of the backend, a copy with
\* the same person ID and role; an identity the backend supplies is kept,
\* the cached identity is filled in when the backend supplies none and only
\* then; the backend's records and the person cache are left as they were.
C35_ResolvePeopleJoinsIdentityOnly ==
    [][ (resolveCall' # resolveCall /\ resolveCall'.pc = "returned")
        => /\ DOMAIN resolveCall'.returned = DOMAIN resolveCall'.records
           /\ \A k \in DOMAIN resolveCall'.records :
                LET in == resolveCall'.records[k]
                    out == resolveCall'.returned[k]
                IN /\ out.person_id = in.person_id
                   /\ out.event_role = in.event_role
                   /\ DOMAIN out = DOMAIN in
                   /\ in.matrix_id # NoId => out.matrix_id = in.matrix_id
                   /\ in.matrix_id = NoId => out.matrix_id = CachedIdentity(in.person_id)
           /\ dbRecords' = dbRecords
           /\ people' = people
      ]_vars

\* C35: a call returned a record whose identity the backend supplied while
\* the cache held another one for the person, next to a record filled in
\* from the cache.
C35_KeptAndFilled ==
    /\ resolveCall.pc = "returned"
    /\ \E k, j \in DOMAIN resolveCall.records :
         /\ resolveCall.records[k].matrix_id # NoId
         /\ CachedIdentity(resolveCall.records[k].person_id)
              \notin {NoId, resolveCall.records[k].matrix_id}
         /\ resolveCall.returned[k].matrix_id = resolveCall.records[k].matrix_id
         /\ resolveCall.records[j].matrix_id = NoId
         /\ resolveCall.returned[j].matrix_id # NoId
=============================================================================
